---- MODULE Spec2Model ----
(***************************************************************************)
(* Solar + storage sweep: parameter resolution, origin cost policy and the  *)
(* sweep orchestrator with its single reused optimizer session.             *)
(*                                                                          *)
(* Numbers are fixed-point: a numeric cell value v stands for v/100, so     *)
(* 1.0 is 100, 0.5 is 50 and the percent form 5 is 500.                      *)
(***************************************************************************)
EXTENDS Integers, Sequences, FiniteSets, TLC

VARIABLES
    pc,               \* position of main() / run_single_pv()
    override_params,  \* first row of the override CSV (a dict: key -> cell)
    cli_ins,          \* args.insolation_mult
    data_has_hour0,   \* whether the hourly data file holds hour 0
    computed_limit,   \* what compute_pv_sizing_limits returns for the data
    row_idx,          \* number of sweep rows read so far
    sweep_row,        \* the sweep row being processed (a dict: column -> cell)
    full_params,      \* the effective parameters of the row
    launch_A_tot,     \* launch A_tot of the row: run id and workbook name
    sizing_limits,    \* "Final Allowed System Size (kW)" handed to the driver
    todo,             \* PV x battery combinations of the row still to run
    cur,              \* the combination run_single_pv is working on
    ampl,             \* the optimizer session
    hourly_df,        \* Grid Export column of the hourly records extracted
    result,           \* what run_single_pv returned last
    fail_at,          \* the step at which the last run_single_pv raised
    workbooks,        \* workbook name -> rows of its Summary sheet; the one
                      \* workbook file where write_results_to_excel is followed
    log,              \* logging.error entries: the run ids logged
    attempted,        \* <<row, pv, bat>> on which run_single_pv was called
    fn_in,            \* arguments of the function last called
    fn_out,           \* its output
    processes,        \* the sweep jobs parallel_sweep has launched
    summary_csv       \* the summary CSV files, by path

vars == <<pc, override_params, cli_ins, data_has_hour0, computed_limit, row_idx,
          sweep_row, full_params, launch_A_tot, sizing_limits, todo, cur, ampl,
          hourly_df, result, fail_at, workbooks, log, attempted, fn_in, fn_out,
          processes, summary_csv>>

(***************************************************************************)
(* Bounds of the model.                                                     *)
(***************************************************************************)
NumRows == 2
MaxHour == 1

HOURS == 0..MaxHour

(***************************************************************************)
(* Cell values as pandas hands them over: a float, NaN (a blank cell),      *)
(* None, or a string (only a column holding a non-numeric cell has them).   *)
(***************************************************************************)
NaN == [t |-> "nan"]
None == [t |-> "none"]
Num(v) == [t |-> "num", v |-> v]
Str(s) == [t |-> "str", s |-> s]

\* pd.isna on a scalar
isna(x) == x.t \in {"nan", "none"}

\* dict.get(key, default)
Get(d, k, default) == IF k \in DOMAIN d THEN d[k] ELSE default

\* {**a, **b}: the keys of both, b's value where both hold the key
Merge(a, b) ==
    [k \in (DOMAIN a) \cup (DOMAIN b) |-> IF k \in DOMAIN b THEN b[k] ELSE a[k]]

\* d with d[k] = v
Put(d, k, v) == [x \in (DOMAIN d) \cup {k} |-> IF x = k THEN v ELSE d[x]]

\* d.pop(k, None)
Pop(d, k) == [x \in (DOMAIN d) \ {k} |-> d[x]]

\* int(float): truncation toward zero
Trunc(v) == IF v >= 0 THEN v \div 100 ELSE -((-v) \div 100)

\* round(float): to the nearest integer, a tie to the even one
RoundHalfEven(v) ==
    LET f == v \div 100
        r == v - 100 * f
    IN  IF r < 50 THEN f
        ELSE IF r > 50 THEN f + 1
        ELSE IF f % 2 = 0 THEN f ELSE f + 1

\* whether float(x) returns (a non-numeric string or None raises)
FloatOk(x) == x.t \in {"num", "nan"}

safe_int_default == 0

\* model_helpers.safe_int(value, default=0) -> a Python int
safe_int(value) ==
    IF isna(value) THEN safe_int_default
    ELSE IF value.t = "num" THEN Trunc(value.v)
    ELSE safe_int_default

\* run_sweep._safe_int_local(v, default) -> a Python int
_safe_int_local(v, default) ==
    IF v.t \in {"none", "nan"} THEN default
    ELSE IF v.t = "num" THEN RoundHalfEven(v.v)
    ELSE default

\* s.strip() == "" for the strings of the model
IsBlankStr(x) == x.t = "str" /\ x.s \in {"", " "}

\* run_sweep._normalize_insolation_mult(x) -> a multiplier cell
_normalize_insolation_mult(x) ==
    IF x.t = "none" THEN Num(100)
    ELSE IF x.t = "str" THEN
        IF IsBlankStr(x) THEN Num(100)
        ELSE IF x.s = "5%" THEN Num(105)
        ELSE Num(100)
    ELSE IF x.t = "nan" THEN NaN
    ELSE IF -200 <= x.v /\ x.v <= 200 THEN Num(x.v)
    ELSE Num(100 + x.v \div 100)

(***************************************************************************)
(* Parameter resolution of one sweep row: run_sweep.main, lines 157-207     *)
(* and 296.                                                                 *)
(***************************************************************************)
EmptyDict == [k \in {} |-> NaN]

\* lines 158-161: a blank string in the sweep's insolation_mult column is None
CleanRow(row) ==
    [k \in DOMAIN row |->
        IF k = "insolation_mult" /\ IsBlankStr(row[k]) THEN None ELSE row[k]]

\* the two layers merged the other way round: the override value wins
MergeLayers_overrideWins(override, row) == Merge(CleanRow(row), override)

\* line 181: full_params = {**override_params, **sweep_row.to_dict()}
MergeLayers(override, row) == Merge(override, CleanRow(row))

\* lines 184-185
EnsureOffsetPrice(fp) ==
    IF "offset_price" \notin DOMAIN fp \/ isna(fp["offset_price"])
    THEN Put(fp, "offset_price", Num(0))
    ELSE fp

\* lines 188-196: the row's multiplier, the command-level value when blank
RowInsMult(fp, cli) ==
    LET raw == Get(fp, "insolation_mult", None)
        used == IF raw.t \in {"none", "nan"} \/ IsBlankStr(raw) THEN cli ELSE raw
    IN  _normalize_insolation_mult(used)

\* lines 201-204: bool(safe_int(full_params.get(key, default))), as an int
FlagOf(fp, key, default) ==
    IF safe_int(Get(fp, key, default)) # 0 THEN 1 ELSE 0

enable_sell_default == 1
enforce_limit_default == 0

\* lines 181-204: the parameters as they stand when the run id is built
ResolvedParams(override, row, cli) ==
    LET fp1 == EnsureOffsetPrice(MergeLayers(override, row))
        fp2 == Put(fp1, "insolation_mult", RowInsMult(fp1, cli))
        es  == FlagOf(fp2, "enable_sell", Num(100 * enable_sell_default))
        el  == FlagOf(fp2, "enforce_limit_flag", Num(100 * enforce_limit_default))
    IN  Put(Put(fp2, "enable_sell", Num(100 * es)),
            "enforce_limit_flag", Num(100 * el))

\* line 207: the launch A_tot
LaunchAtot(fp) == _safe_int_local(Get(fp, "A_tot", None), 0)

\* lines 277-296 without the pop of line 296
DropUnenforcedArea_keep(fp) == fp

\* lines 277-296: A_tot is dropped when no sizing limit is enforced
DropUnenforcedArea(fp) ==
    IF fp["enforce_limit_flag"] = Num(100) THEN fp ELSE Pop(fp, "A_tot")

NoLimitKw == 1000000

\* lines 277-296: the limit handed to run_single_pv
SizingLimitsOf(fp, computed) ==
    IF fp["enforce_limit_flag"] = Num(100) THEN computed ELSE NoLimitKw

(***************************************************************************)
(* The optimizer session (amplpy.AMPL) as far as the driver uses it.        *)
(***************************************************************************)
PVTable == <<"PV_A", "PV_B">>
BatTable == <<"BAT_A">>

\* the PV x battery combinations in the order of run_sweep.main, lines 299-300
Combos ==
    [i \in 1..(Len(PVTable) * Len(BatTable)) |->
        <<PVTable[((i - 1) \div Len(BatTable)) + 1],
          BatTable[((i - 1) % Len(BatTable)) + 1]>>]

ZeroExport == [h \in HOURS |-> 0]

\* a session nobody created yet
NoSession ==
    [created |-> 0, resets |-> 0, params |-> EmptyDict,
     PV_types |-> {}, BATTERY_TYPES |-> {}, HOURS |-> {},
     gs_fixed |-> FALSE, Grid_sell |-> ZeroExport]

\* model_helpers.create_ampl
create_ampl(a) == [a EXCEPT !.created = @ + 1]

\* model_helpers.reset_ampl_model: ampl.reset(); ampl.read(model_path)
reset_ampl_model(a) ==
    [NoSession EXCEPT !.created = a.created, !.resets = a.resets + 1]

A_tot_unset == 1000000

\* run_single_pv, lines 101-113: every float(...) of a scalar knob returns
CoercionOk(fp) ==
    /\ FloatOk(Get(fp, "itc_pv", Num(0)))
    /\ FloatOk(Get(fp, "itc_bat", Num(0)))
    /\ FloatOk(Get(fp, "offset_price", Num(0)))
    /\ LET a == Get(fp, "A_tot", Num(100 * A_tot_unset))
       IN  isna(a) \/ FloatOk(a)

\* lines 110-113: the area submitted
AtotOf(fp) ==
    LET a == Get(fp, "A_tot", Num(100 * A_tot_unset))
    IN  IF isna(a) THEN Num(100 * A_tot_unset) ELSE a

\* lines 114-239: the parameters and sets written to the session
Parameterized(a, fp, limit, combo) ==
    [a EXCEPT
        !.params = [A_tot |-> AtotOf(fp),
                    offset_price |-> Get(fp, "offset_price", Num(0)),
                    sizing_limit |-> limit,
                    itc_pv |-> Get(fp, "itc_pv", Num(0)),
                    itc_bat |-> Get(fp, "itc_bat", Num(0))],
        !.HOURS = HOURS,
        !.PV_types = {combo[1]},
        !.BATTERY_TYPES = {combo[2]}]

\* lines 92-93: the sell flag as run_single_pv reads it
EnableSell(fp) == safe_int(Get(fp, "enable_sell", Num(100))) # 0

\* lines 243-251 without the fix
PinGridSell_noFix(a, enable_sell) == a

\* lines 243-251: Grid_sell is unfixed, set to 0.0 and fixed, all of it only
\* when selling is disabled
PinGridSell(a, enable_sell) ==
    IF ~enable_sell
    THEN [a EXCEPT !.gs_fixed = TRUE, !.Grid_sell = ZeroExport]
    ELSE a

\* line 255, ampl.solve(): the values Grid_sell may have afterwards. A fixed
\* variable keeps its value, a free one takes what the solver finds.
SolveOutcomes(a) ==
    IF a.gs_fixed THEN {a.Grid_sell} ELSE [HOURS -> {0, 1}]

\* the except clause that lets the error through
ExceptClause_reraise(lg, run_id) ==
    [log |-> lg, result |-> "Raised", pc |-> "aborted"]

\* lines 657-659: the error is logged with the run id, (None, None) returned
ExceptClause(lg, run_id) ==
    [log |-> Append(lg, run_id), result |-> "Failure", pc |-> "ret"]

\* excel_utils.write_results_to_excel, lines 73-84: the rows of the Summary
\* sheet to write
summary_df(existing, scalar_row, has) ==
    IF has THEN Append(existing, scalar_row) ELSE <<scalar_row>>

\* excel_utils.write_results_to_excel, lines 66-87, on the workbooks of the
\* sweep, each held as the rows of its Summary sheet: the combination's row is
\* appended, or stands alone when the workbook could not be loaded
WriteSummary(wbs, name, row, loaded) ==
    Put(wbs, name, summary_df(Get(wbs, name, <<>>), row, loaded /\ name \in DOMAIN wbs))

(***************************************************************************)
(* The sweep: run_sweep.main driving run_single_loop.run_single_pv.         *)
(***************************************************************************)
\* the override CSVs and sweep rows the sweep is run on
SweepOverrides == {EmptyDict, [itc_bat |-> Str("abc")]}

SweepRows ==
    [enable_sell : {Num(0), Num(100)},
     enforce_limit_flag : {Num(0), Num(100)},
     A_tot : {Num(20000), NaN},
     itc_pv : {Num(30), Str("abc")}]

\* no summary CSV in the run folder
NoCsv == EmptyDict

Idle ==
    /\ fn_in = <<>>
    /\ fn_out = <<>>
    /\ processes = <<>>
    /\ summary_csv = NoCsv

Init ==
    /\ pc = "start"
    /\ override_params \in SweepOverrides
    /\ cli_ins = Num(100)
    /\ data_has_hour0 \in BOOLEAN
    /\ computed_limit \in {5}
    /\ row_idx = 0
    /\ sweep_row = EmptyDict
    /\ full_params = EmptyDict
    /\ launch_A_tot = 0
    /\ sizing_limits = 0
    /\ todo = <<>>
    /\ cur = <<>>
    /\ ampl = NoSession
    /\ hourly_df = EmptyDict
    /\ result = "none"
    /\ fail_at = "none"
    /\ workbooks = EmptyDict
    /\ log = <<>>
    /\ attempted = {}
    /\ Idle

inputs == <<override_params, cli_ins, data_has_hour0, computed_limit, fn_in, fn_out,
            processes, summary_csv>>
rowvars == <<row_idx, sweep_row, full_params, launch_A_tot, sizing_limits>>

\* main, lines 149-151: the session is created and reset to the base model
StartSweep ==
    /\ pc = "start"
    /\ ampl' = reset_ampl_model(create_ampl(ampl))
    /\ pc' = "rows"
    /\ UNCHANGED <<inputs, rowvars, todo, cur, hourly_df, result, fail_at,
                   workbooks, log, attempted>>

\* main, lines 180-296: the next sweep row is resolved; the missing hour 0
\* raises out of main
BeginRow ==
    /\ pc = "rows"
    /\ row_idx < NumRows
    /\ \E row \in SweepRows :
        LET fp == ResolvedParams(override_params, row, cli_ins)
        IN  /\ sweep_row' = row
            /\ row_idx' = row_idx + 1
            /\ launch_A_tot' = LaunchAtot(fp)
            /\ IF data_has_hour0
               THEN /\ full_params' = DropUnenforcedArea(fp)
                    /\ sizing_limits' = SizingLimitsOf(fp, computed_limit)
                    /\ todo' = Combos
                    /\ pc' = "combo"
               ELSE /\ full_params' = fp
                    /\ UNCHANGED <<sizing_limits, todo>>
                    /\ pc' = "aborted"
    /\ UNCHANGED <<inputs, cur, ampl, hourly_df, result, fail_at, workbooks, log,
                   attempted>>

\* main, lines 299-312: run_single_pv is called on the next combination
CallRunSinglePv ==
    /\ pc = "combo"
    /\ todo # <<>>
    /\ cur' = Head(todo)
    /\ attempted' = attempted \cup {<<row_idx, Head(todo)[1], Head(todo)[2]>>}
    /\ result' = "none"
    /\ fail_at' = "none"
    /\ hourly_df' = EmptyDict
    /\ pc' = "parameterize"
    /\ UNCHANGED <<inputs, rowvars, todo, ampl, workbooks, log>>

\* the except clause of run_single_pv taken from step `step`
Raise(step) ==
    LET e == ExceptClause(log, launch_A_tot)
    IN  /\ log' = e.log
        /\ result' = e.result
        /\ pc' = e.pc
        /\ fail_at' = step

\* run_single_pv, lines 96-241
Parameterize ==
    /\ pc = "parameterize"
    /\ IF CoercionOk(full_params)
       THEN /\ ampl' = Parameterized(ampl, full_params, sizing_limits, cur)
            /\ pc' = "pin"
            /\ UNCHANGED <<result, fail_at, log>>
       ELSE /\ Raise("parameterize")
            /\ UNCHANGED ampl
    /\ UNCHANGED <<inputs, rowvars, todo, cur, hourly_df, workbooks, attempted>>

\* run_single_pv, lines 243-251
Pin ==
    /\ pc = "pin"
    /\ ampl' = PinGridSell(ampl, EnableSell(full_params))
    /\ pc' = "solve"
    /\ UNCHANGED <<inputs, rowvars, todo, cur, hourly_df, result, fail_at,
                   workbooks, log, attempted>>

\* run_single_pv, lines 253-255: the solver returns
Solve ==
    /\ pc = "solve"
    /\ \E gs \in SolveOutcomes(ampl) :
        ampl' = [ampl EXCEPT !.Grid_sell = gs]
    /\ pc' = "extract"
    /\ UNCHANGED <<inputs, rowvars, todo, cur, hourly_df, result, fail_at,
                   workbooks, log, attempted>>

\* run_single_pv, line 255: the solver raises
SolveRaises ==
    /\ pc = "solve"
    /\ Raise("solve")
    /\ UNCHANGED <<inputs, rowvars, todo, cur, ampl, hourly_df, workbooks,
                   attempted>>

\* run_single_pv, lines 257-595: the hourly records of the hours whose values
\* could be read (lines 338-380 skip an hour that raises)
Extract ==
    /\ pc = "extract"
    /\ \E S \in (SUBSET HOURS) \ {{}} :
        hourly_df' = [h \in S |-> ampl.Grid_sell[h]]
    /\ pc' = "write"
    /\ UNCHANGED <<inputs, rowvars, todo, cur, ampl, result, fail_at, workbooks,
                   log, attempted>>

\* run_single_pv, lines 257-595: reading a result raises
ExtractRaises ==
    /\ pc = "extract"
    /\ Raise("extract")
    /\ UNCHANGED <<inputs, rowvars, todo, cur, ampl, hourly_df, workbooks,
                   attempted>>

\* run_single_pv, lines 597-609: write_results_to_excel returns
WriteResults ==
    /\ pc = "write"
    /\ \E loaded \in BOOLEAN :
        workbooks' = WriteSummary(workbooks, launch_A_tot,
                                  <<row_idx, cur[1], cur[2]>>, loaded)
    /\ pc' = "insert"
    /\ UNCHANGED <<inputs, rowvars, todo, cur, ampl, hourly_df, result, fail_at,
                   log, attempted>>

\* run_single_pv, lines 597-609: the workbook cannot be written
WriteRaises ==
    /\ pc = "write"
    /\ Raise("write")
    /\ UNCHANGED <<inputs, rowvars, todo, cur, ampl, hourly_df, workbooks,
                   attempted>>

\* run_single_pv, lines 610-611 and 69-71: _insert_small_scalar_top calls
\* _safe_load_workbook, a name run_single_loop neither defines nor imports:
\* NameError, caught by the except clause
InsertSmallScalarTop ==
    /\ pc = "insert"
    /\ Raise("insert")
    /\ UNCHANGED <<inputs, rowvars, todo, cur, ampl, hourly_df, workbooks,
                   attempted>>

\* main, lines 313-318: back in the loop; scalar_df is None, nothing is
\* appended, and the locals of the call are gone
Return ==
    /\ pc = "ret"
    /\ todo' = Tail(todo)
    /\ cur' = <<>>
    /\ hourly_df' = EmptyDict
    /\ result' = "none"
    /\ fail_at' = "none"
    /\ pc' = "combo"
    /\ UNCHANGED <<inputs, rowvars, ampl, workbooks, log, attempted>>

\* main, line 299: the combinations of the row are exhausted
NextRow ==
    /\ pc = "combo"
    /\ todo = <<>>
    /\ pc' = "rows"
    /\ UNCHANGED <<inputs, rowvars, todo, cur, ampl, hourly_df, result, fail_at,
                   workbooks, log, attempted>>

\* main, line 320: the sweep rows are exhausted
EndSweep ==
    /\ pc = "rows"
    /\ row_idx = NumRows
    /\ pc' = "done"
    /\ UNCHANGED <<inputs, rowvars, todo, cur, ampl, hourly_df, result, fail_at,
                   workbooks, log, attempted>>

Next ==
    \/ StartSweep
    \/ BeginRow
    \/ CallRunSinglePv
    \/ Parameterize
    \/ Pin
    \/ Solve
    \/ SolveRaises
    \/ Extract
    \/ ExtractRaises
    \/ WriteResults
    \/ WriteRaises
    \/ InsertSmallScalarTop
    \/ Return
    \/ NextRow
    \/ EndSweep

Spec == Init /\ [][Next]_vars

(***************************************************************************)
(* Properties of the sweep.                                                 *)
(***************************************************************************)
AllCombos == {Combos[i] : i \in 1..Len(Combos)}

\* the session holds the base model: nothing parameterized, nothing fixed
AtBaseModel(a) == a = [NoSession EXCEPT !.created = a.created, !.resets = a.resets]

\* the row a combination contributes to the Summary sheet
SummaryRowOf(r, combo) == <<r, combo[1], combo[2]>>

SummaryRows(name) ==
    LET rows == Get(workbooks, name, <<>>)
    IN  {rows[i] : i \in 1..Len(rows)}

\* C1: a combination with enable_sell = 1 is solved with Grid_sell free, and
\* the sets of the session are those of the combination being solved: nothing
\* set for an earlier combination is in force at the solve.
C1_NoStaleSetting ==
    pc = "solve" =>
        /\ EnableSell(full_params) => ~ampl.gs_fixed
        /\ ampl.PV_types = {cur[1]}
        /\ ampl.BATTERY_TYPES = {cur[2]}
        /\ ampl.params.sizing_limit = sizing_limits

\* C2: with enable_sell = 0, Grid_sell is fixed at 0.0 for every hour when
\* the solve is invoked, it is still so when the solve has returned, and every
\* hourly record extracted for the combination has Grid Export 0.
C2_ExportPinnedBeforeSolve ==
    ~EnableSell(full_params) =>
        /\ pc \in {"solve", "extract", "write", "insert"} =>
              /\ ampl.gs_fixed
              /\ \A h \in HOURS : ampl.Grid_sell[h] = 0
        /\ \A h \in DOMAIN hourly_df : hourly_df[h] = 0

\* C2, witness: a second-row combination with selling disabled has its hourly
\* records of every hour extracted and is about to be written
C2_Witness ==
    /\ pc = "write"
    /\ row_idx = NumRows
    /\ ~EnableSell(full_params)
    /\ DOMAIN hourly_df = HOURS

\* C3: a combination for which run_single_pv returned (None, None) has no row
\* in the Summary sheet of its workbook.
C3_FailureLeavesNoSummaryRow ==
    result = "Failure" =>
        SummaryRowOf(row_idx, cur) \notin SummaryRows(launch_A_tot)

\* C4: an error raised in the guarded path of run_single_pv is returned as
\* (None, None) and logged with the run id, never raised into main: main stops
\* early only for the row-level input error, no combination of the row is
\* dropped, and a sweep that ends has tried every combination of every row.
C4_FailureIsSkipAndContinue ==
    /\ fail_at # "none" =>
          /\ result = "Failure"
          /\ pc = "ret"
          /\ log # <<>> /\ log[Len(log)] = launch_A_tot
    /\ pc = "aborted" => (~data_has_hour0 /\ result = "none")
    /\ pc \in {"combo", "ret"} =>
          {SummaryRowOf(row_idx, c) : c \in AllCombos} \subseteq
              attempted \cup
              {SummaryRowOf(row_idx, todo[i]) : i \in 1..Len(todo)}
    /\ pc = "done" =>
          attempted = {SummaryRowOf(r, c) : r \in 1..NumRows, c \in AllCombos}

\* C4, witness: the sweep ended with an error logged for every combination
\* of every row, each of them tried
C4_Witness ==
    /\ pc = "done"
    /\ data_has_hour0
    /\ Len(log) = NumRows * Len(Combos)
    /\ Cardinality(attempted) = NumRows * Len(Combos)

\* C7: a non-coercible value of a numeric scenario knob does not make the
\* combination fail: run_single_pv does not end in the coercion of the knobs.
C7_NonCoercibleKnobNeverFails ==
    (result = "Failure" /\ ~CoercionOk(full_params)) => fail_at # "parameterize"

\* C10: when a combination is about to be parameterized, the one session of
\* the sweep has been reset to its base model since the previous combination.
C10_ResetBetweenCombinations ==
    pc = "parameterize" => (ampl.created = 1 /\ AtBaseModel(ampl))

(***************************************************************************)
(* Parameter resolution on its own: one override set and one sweep row,     *)
(* each holding at most MaxCols of the recognized columns.                  *)
(***************************************************************************)
MaxCols == 2

Keys == {"itc_pv", "itc_bat", "A_tot", "offset_price", "enable_sell",
         "enforce_limit_flag", "insolation_mult"}

\* the cells a column may hold
CellsOf(k) ==
    {NaN, Num(0), Num(500), Str("abc")}
        \cup (IF k = "insolation_mult" THEN {Str(""), Str("5%")} ELSE {})

AllCells == UNION {CellsOf(k) : k \in Keys}

\* the dicts over the columns F
DictsOver(F) == {d \in [F -> AllCells] : \A k \in F : d[k] \in CellsOf(k)}

\* the column sets an override CSV and a sweep CSV may have between them
ColumnSets == {G \in SUBSET Keys : Cardinality(G) <= MaxCols}

InitResolve ==
    /\ pc = "load_override"
    /\ override_params = EmptyDict
    /\ sweep_row = EmptyDict
    /\ cli_ins = Num(90)
    /\ data_has_hour0 = TRUE
    /\ computed_limit = 5
    /\ row_idx = 0
    /\ full_params = EmptyDict
    /\ launch_A_tot = 0
    /\ sizing_limits = 0
    /\ todo = <<>>
    /\ cur = <<>>
    /\ ampl = NoSession
    /\ hourly_df = EmptyDict
    /\ result = "none"
    /\ fail_at = "none"
    /\ workbooks = EmptyDict
    /\ log = <<>>
    /\ attempted = {}
    /\ Idle

\* main, lines 164-177: the first row of the override CSV, if any
LoadOverride ==
    /\ pc = "load_override"
    /\ \E Fo \in ColumnSets : override_params' \in DictsOver(Fo)
    /\ pc' = "resolve"
    /\ UNCHANGED <<cli_ins, data_has_hour0, computed_limit, fn_in, fn_out, processes,
                   summary_csv, rowvars,
                   todo, cur, ampl, hourly_df, result, fail_at, workbooks, log,
                   attempted>>

\* main, lines 180-296, for one sweep row
ResolveRow ==
    /\ pc = "resolve"
    /\ \E Fr \in ColumnSets :
        /\ (DOMAIN override_params) \cup Fr \in ColumnSets
        /\ \E row \in DictsOver(Fr) :
            LET fp == ResolvedParams(override_params, row, cli_ins)
            IN  /\ sweep_row' = row
                /\ full_params' = DropUnenforcedArea(fp)
                /\ launch_A_tot' = LaunchAtot(fp)
                /\ sizing_limits' = SizingLimitsOf(fp, computed_limit)
    /\ row_idx' = 1
    /\ pc' = "resolved"
    /\ UNCHANGED <<inputs, todo, cur, ampl, hourly_df, result, fail_at,
                   workbooks, log, attempted>>

NextResolve ==
    \/ LoadOverride
    \/ ResolveRow

SpecResolve == InitResolve /\ [][NextResolve]_vars

(***************************************************************************)
(* Properties of the resolution.                                            *)
(***************************************************************************)
IsBlank(v) == v.t \in {"nan", "none"} \/ (v.t = "str" /\ v.s \in {"", " "})

\* what the effective parameters hold for key k when cell v is the one that
\* counts: the cell itself for the pass-through keys, 0.0 for a blank offset
\* price, 0 or 1 for the two flags, a multiplier for insolation_mult
ResolvedValue(k, v) ==
    CASE k = "offset_price" -> IF v.t \in {"nan", "none"} THEN Num(0) ELSE v
      [] k \in {"enable_sell", "enforce_limit_flag"} ->
            IF v.t = "num" /\ (v.v >= 100 \/ v.v <= -100) THEN Num(100) ELSE Num(0)
      [] k = "insolation_mult" ->
            IF IsBlank(v) THEN cli_ins
            ELSE IF v.t = "num" THEN
                IF -200 <= v.v /\ v.v <= 200 THEN v ELSE Num(100 + v.v \div 100)
            ELSE IF v = Str("5%") THEN Num(105)
            ELSE Num(100)
      [] OTHER -> v

\* the effective parameters hold for key k what cell v resolves to; A_tot is
\* absent from them when the limit flag resolved to 0
CarriesFrom(k, v) ==
    IF k = "A_tot" /\ full_params["enforce_limit_flag"] = Num(0)
    THEN k \notin DOMAIN full_params
    ELSE k \in DOMAIN full_params /\ full_params[k] = ResolvedValue(k, v)

C6_BlankFallsThrough ==
    pc = "resolved" =>
        \A k \in DOMAIN sweep_row :
            IsBlank(sweep_row[k]) =>
                IF k \in DOMAIN override_params /\ ~IsBlank(override_params[k])
                THEN CarriesFrom(k, override_params[k])
                ELSE /\ k = "enable_sell" => full_params[k] = Num(100)
                     /\ k = "enforce_limit_flag" => full_params[k] = Num(0)
                     /\ k = "insolation_mult" => full_params[k] = cli_ins

(***************************************************************************)
(* Origin cost policy: model_helpers.effective_pv_inputs_by_origin and      *)
(* effective_battery_inputs_by_origin.  A list cell is the sequence of the  *)
(* pieces between the semicolons of its text.                               *)
(***************************************************************************)
MaxListLen == 2

ListCell(items) == [t |-> "list", items |-> items]

\* s.strip() for the pieces of the model
Strip(s) == CASE s = " a" -> "a" [] s = " " -> "" [] OTHER -> s

\* model_helpers._parse_list
_parse_list(val) ==
    IF val.t \in {"none", "nan"} THEN {}
    ELSE {Strip(val.items[i]) : i \in 1..Len(val.items)} \ {""}

\* bool(int(overrides.get("use_origin_policy", 0))), False when int() raises
UseOrigin(overrides) ==
    LET v == Get(overrides, "use_origin_policy", Num(0))
    IN  v.t = "num" /\ Trunc(v.v) # 0

\* float(overrides.get(key, 1.0) or 1.0), 1.0 when float() raises: a falsy
\* cell (0, None, "") counts as 1.0, a blank (NaN) cell stays NaN
DiscountMult(overrides, key) ==
    LET v == Get(overrides, key, Num(100))
    IN  IF v.t = "num" THEN (IF v.v = 0 THEN Num(100) ELSE v)
        ELSE IF v.t = "nan" THEN NaN
        ELSE Num(100)

\* float * float
Mul(a, b) == IF a.t = "nan" \/ b.t = "nan" THEN NaN ELSE Num((a.v * b.v) \div 100)

\* effective_pv_inputs_by_origin(pv_row, itc_pv, overrides)
effective_pv_inputs_by_origin(pv_row, itc_pv, overrides) ==
    IF ~UseOrigin(overrides) THEN <<pv_row.pv_cost, itc_pv>>
    ELSE LET us_list == _parse_list(Get(overrides, "pv_us_list", None))
             cn_list == _parse_list(Get(overrides, "pv_cn_list", None))
             cn_disc == DiscountMult(overrides, "cn_pv_discount_mult")
         IN  IF pv_row.PV_types \in cn_list
             THEN <<Mul(pv_row.pv_cost, cn_disc), Num(0)>>
             ELSE IF pv_row.PV_types \in us_list
             THEN <<pv_row.pv_cost, itc_pv>>
             ELSE <<pv_row.pv_cost, itc_pv>>

\* effective_battery_inputs_by_origin(bat_row, itc_bat, overrides)
effective_battery_inputs_by_origin(bat_row, itc_bat, overrides) ==
    IF ~UseOrigin(overrides) THEN <<bat_row.B_cost_e, bat_row.B_cost_p, itc_bat>>
    ELSE LET us_list == _parse_list(Get(overrides, "bat_us_list", None))
             cn_list == _parse_list(Get(overrides, "bat_cn_list", None))
             cn_disc_e == DiscountMult(overrides, "cn_bat_discount_mult_e")
             cn_disc_p == DiscountMult(overrides, "cn_bat_discount_mult_p")
         IN  IF bat_row.BATTERY_TYPES \in cn_list
             THEN <<Mul(bat_row.B_cost_e, cn_disc_e),
                    Mul(bat_row.B_cost_p, cn_disc_p), Num(0)>>
             ELSE IF bat_row.BATTERY_TYPES \in us_list
             THEN <<bat_row.B_cost_e, bat_row.B_cost_p, itc_bat>>
             ELSE <<bat_row.B_cost_e, bat_row.B_cost_p, itc_bat>>

(***************************************************************************)
(* The two origin functions applied to one combination, as run_single_pv    *)
(* applies them, over bounded override sets.                                *)
(***************************************************************************)
Absent == [t |-> "absent"]

\* dict literal without the keys whose cell is absent
Present(d) == [k \in {x \in DOMAIN d : d[x] # Absent} |-> d[k]]

ListItems == {"A", " a", ""}
ListCells ==
    {Absent, NaN} \cup
    {ListCell(q) : q \in UNION {[1..n -> ListItems] : n \in 1..MaxListLen}}
UseCells == {Absent, NaN, Num(0), Num(100), Str("abc")}
DiscountCells == {Absent, Num(0), Num(50), Str("abc")}
TypeNames == {"A", "a"}

PvOverrides ==
    {Present([use_origin_policy |-> u, pv_us_list |-> us, pv_cn_list |-> cn,
              cn_pv_discount_mult |-> m]) :
        u \in UseCells, us \in ListCells, cn \in ListCells, m \in DiscountCells}

BatOverrides ==
    {Present([use_origin_policy |-> u, bat_us_list |-> us, bat_cn_list |-> cn,
              cn_bat_discount_mult_e |-> e, cn_bat_discount_mult_p |-> p]) :
        u \in UseCells, us \in ListCells, cn \in ListCells,
        e \in DiscountCells, p \in DiscountCells}

InitOrigin ==
    /\ pc = "load_origin"
    /\ override_params = EmptyDict
    /\ sweep_row = EmptyDict
    /\ cli_ins = Num(100)
    /\ data_has_hour0 = TRUE
    /\ computed_limit = 5
    /\ row_idx = 0
    /\ full_params = EmptyDict
    /\ launch_A_tot = 0
    /\ sizing_limits = 0
    /\ todo = <<>>
    /\ cur = <<>>
    /\ ampl = NoSession
    /\ hourly_df = EmptyDict
    /\ result = "none"
    /\ fail_at = "none"
    /\ workbooks = EmptyDict
    /\ log = <<>>
    /\ attempted = {}
    /\ Idle

originvars == <<processes, summary_csv, cli_ins, data_has_hour0, computed_limit, rowvars, todo, cur, ampl,
                hourly_df, result, fail_at, workbooks, log, attempted>>

\* the override set handed to run_single_pv
LoadOriginOverrides ==
    /\ pc = "load_origin"
    /\ override_params' \in PvOverrides \cup BatOverrides
    /\ pc' = "origin_pv"
    /\ UNCHANGED <<fn_in, fn_out, originvars>>

\* run_single_pv, lines 184-188
EffectivePv ==
    /\ pc = "origin_pv"
    /\ \E name \in TypeNames :
        LET pv_row == [PV_types |-> name, pv_cost |-> Num(1000)]
            itc_pv == Num(30)
        IN  /\ fn_in' = [row |-> pv_row, itc |-> itc_pv]
            /\ fn_out' = effective_pv_inputs_by_origin(pv_row, itc_pv, override_params)
    /\ pc' = "origin_bat"
    /\ UNCHANGED <<override_params, originvars>>

\* run_single_pv, lines 190-194
EffectiveBat ==
    /\ pc = "origin_bat"
    /\ \E name \in TypeNames :
        LET bat_row == [BATTERY_TYPES |-> name, B_cost_e |-> Num(2000),
                        B_cost_p |-> Num(1000)]
            itc_bat == Num(30)
        IN  /\ fn_in' = [row |-> bat_row, itc |-> itc_bat]
            /\ fn_out' = effective_battery_inputs_by_origin(bat_row, itc_bat,
                                                            override_params)
    /\ pc' = "origin_done"
    /\ UNCHANGED <<override_params, originvars>>

NextOrigin ==
    \/ LoadOriginOverrides
    \/ EffectivePv
    \/ EffectiveBat

SpecOrigin == InitOrigin /\ [][NextOrigin]_vars

(***************************************************************************)
(* Properties of the origin cost policy                                     *)
(***************************************************************************)
\* the policy switch is set to 1
PolicyOn == Get(override_params, "use_origin_policy", Num(0)) = Num(100)

\* name is one of the semicolon-separated entries of the list under key
Listed(name, key) ==
    LET cell == Get(override_params, key, None)
    IN  /\ cell.t = "list"
        /\ \E i \in 1..Len(cell.items) : Strip(cell.items[i]) = name

PvCalled == pc = "origin_bat"
BatCalled == pc = "origin_done"
NominalPv == <<fn_in.row.pv_cost, fn_in.itc>>
NominalBat == <<fn_in.row.B_cost_e, fn_in.row.B_cost_p, fn_in.itc>>

\* cost times the factor configured under key, when a number is configured
TimesConfigured(cost, key, got) ==
    LET m == Get(override_params, key, None)
    IN  m.t = "num" => got = Mul(cost, m)

\* C8: with the policy enabled, a type name listed in both the domestic and the
\* alternate-origin list gets the domestic outcome from both functions: the
\* nominal cost(s) and the scenario incentive rate.
C8_DomesticBranchWins ==
    /\ (PvCalled /\ PolicyOn /\ Listed(fn_in.row.PV_types, "pv_us_list")
            /\ Listed(fn_in.row.PV_types, "pv_cn_list"))
        => fn_out = NominalPv
    /\ (BatCalled /\ PolicyOn /\ Listed(fn_in.row.BATTERY_TYPES, "bat_us_list")
            /\ Listed(fn_in.row.BATTERY_TYPES, "bat_cn_list"))
        => fn_out = NominalBat

\* C9: with the policy disabled both functions return the nominal cost(s) and
\* incentive; with it enabled a name only in the alternate-origin list gets
\* incentive 0 and each cost multiplied by its configured discount factor, a
\* name only in the domestic list gets the nominal values, and a name in
\* neither list gets what the disabled policy returns; names match case-
\* sensitively against the entries of the semicolon-delimited list.
C9_OriginPolicyTable ==
    /\ PvCalled =>
        LET name == fn_in.row.PV_types
            us == Listed(name, "pv_us_list")
            cn == Listed(name, "pv_cn_list")
        IN  /\ ~PolicyOn => fn_out = NominalPv
            /\ (PolicyOn /\ cn /\ ~us) =>
                /\ fn_out[2] = Num(0)
                /\ TimesConfigured(fn_in.row.pv_cost, "cn_pv_discount_mult", fn_out[1])
            /\ (PolicyOn /\ ~cn) => fn_out = NominalPv
    /\ BatCalled =>
        LET name == fn_in.row.BATTERY_TYPES
            us == Listed(name, "bat_us_list")
            cn == Listed(name, "bat_cn_list")
        IN  /\ ~PolicyOn => fn_out = NominalBat
            /\ (PolicyOn /\ cn /\ ~us) =>
                /\ fn_out[3] = Num(0)
                /\ TimesConfigured(fn_in.row.B_cost_e, "cn_bat_discount_mult_e", fn_out[1])
                /\ TimesConfigured(fn_in.row.B_cost_p, "cn_bat_discount_mult_p", fn_out[2])
            /\ (PolicyOn /\ ~cn) => fn_out = NominalBat

(***************************************************************************)
(* Sheet names.  A name is the sequence of its characters, so that slicing  *)
(* and substring tests are those of the code.                               *)
(***************************************************************************)
\* s[:n]
Take(s, n) == SubSeq(s, 1, IF Len(s) < n THEN Len(s) ELSE n)

\* sub in s
Contains(s, sub) ==
    \E i \in 1..(Len(s) - Len(sub) + 1) : SubSeq(s, i, i + Len(sub) - 1) = sub

\* s.replace(" ", "_")
Underscored(s) == [i \in 1..Len(s) |-> IF s[i] = " " THEN "_" ELSE s[i]]

\* s.strip()
RECURSIVE StripChars(_)
StripChars(s) ==
    IF s = <<>> THEN s
    ELSE IF Head(s) = " " THEN StripChars(Tail(s))
    ELSE IF s[Len(s)] = " " THEN StripChars(SubSeq(s, 1, Len(s) - 1))
    ELSE s

\* str(n) of an int n >= 0
RECURSIVE Digits(_)
Digits(n) ==
    LET d == <<"0", "1", "2", "3", "4", "5", "6", "7", "8", "9">>
    IN  IF n < 10 THEN <<d[n + 1]>> ELSE Digits(n \div 10) \o <<d[(n % 10) + 1]>>

\* run_single_pv, lines 310-320
pv_abbrev(pv_type) ==
    LET t == StripChars(pv_type)
    IN  IF Contains(t, <<"B", "i", "f", "a", "c", "i", "a", "l">>)
        THEN <<"M", "o", "n", "o", "_", "B", "F">>
        ELSE IF Contains(t, <<"P", "E", "R", "C">>)
        THEN <<"M", "o", "n", "o", "_", "P", "E", "R", "C">>
        ELSE IF Contains(t, <<"C", "d", "T", "e">>)
        THEN <<"C", "d", "T", "e">>
        ELSE Take(Underscored(t), 15)

\* run_single_pv, lines 322-323
bat_abbrev(bat_type) == Take(StripChars(bat_type), 5)

\* run_single_pv, lines 327-328: f"A{int(round(A_tot))}_{pv}_{bat}_{run_id}"
generated_sheet(A_tot, pv_type, bat_type, run_id) ==
    <<"A">> \o Digits(RoundHalfEven(A_tot.v)) \o <<"_">> \o pv_abbrev(pv_type)
        \o <<"_">> \o bat_abbrev(bat_type) \o <<"_">> \o run_id

SheetNameMax == 31

\* run_single_pv, line 330
hourly_sheet_name(g) == Take(<<"H", "_">> \o g, SheetNameMax)

\* run_single_pv, line 331
monthly_sheet_name(g) == Take(<<"M", "_">> \o g, SheetNameMax)

\* write_results_to_excel, line 57: (sheet_name or "Run").strip()[:31]
run_sheet_of(sheet_name) ==
    Take(StripChars(IF sheet_name = <<>> THEN <<"R", "u", "n">> ELSE sheet_name),
         SheetNameMax)

(***************************************************************************)
(* The workbook: excel_utils._safe_load_workbook and write_results_to_excel.*)
(* A workbook file is absent or holds sheets by name; a Summary sheet holds *)
(* its rows in order.                                                       *)
(***************************************************************************)
InitialName == <<"I", "n", "i", "t", "i", "a", "l">>
SummaryName == <<"S", "u", "m", "m", "a", "r", "y">>

NoFile == [exists |-> FALSE, sheets |-> EmptyDict]

tries_default == 5
delay_default == 40

\* _safe_load_workbook(path, tries, delay) when the first `fails` calls of
\* load_workbook(path) raise and the next one returns: the attempts made, the
\* delays slept and whether the workbook was returned (otherwise the last
\* error is raised).
_safe_load_workbook(fails, tries, delay) ==
    IF fails >= tries
    THEN [ok |-> FALSE, attempts |-> tries, slept |-> [i \in 1..tries |-> delay]]
    ELSE [ok |-> TRUE, attempts |-> fails + 1, slept |-> [i \in 1..fails |-> delay]]

\* the Initial sheet written anew by every call
initial_needed_always(wb) == TRUE

\* line 40: initial_needed = not os.path.exists(excel_path)
initial_needed(wb) == ~wb.exists

\* lines 42-54: a new file holding the Initial sheet alone
WriteInitial(wb, initial) ==
    [exists |-> TRUE, sheets |-> Put(EmptyDict, InitialName, initial)]

\* pd.ExcelWriter(mode='a', if_sheet_exists='replace') ... to_excel(sheet_name)
WriteSheet(wb, name, content) == [wb EXCEPT !.sheets = Put(@, name, content)]

\* lines 67-71: has_summary, False when the load raised
has_summary(wb, loaded) == loaded.ok /\ SummaryName \in DOMAIN wb.sheets

\* the steps of write_results_to_excel in the order of the code
WriteSteps == <<"initial", "run_sheet", "summary", "monthly">>
StepNo(step) == CHOOSE i \in 1..Len(WriteSteps) : WriteSteps[i] = step

\* write_results_to_excel(...) on workbook wb.  raise_at names the step whose
\* file access raises ("none": the call returns); the steps before it have
\* taken effect.
write_results_to_excel(wb, a, loaded, raise_at) ==
    LET upto == IF raise_at = "none" THEN Len(WriteSteps) + 1 ELSE StepNo(raise_at)
        w1 == IF upto > 1 /\ initial_needed(wb) THEN WriteInitial(wb, a.initial) ELSE wb
        w2 == IF upto > 2
              THEN WriteSheet(w1, run_sheet_of(a.sheet_name), a.run_content)
              ELSE w1
        has == has_summary(w2, loaded)
        old == IF has THEN w2.sheets[SummaryName] ELSE <<>>
        w3 == IF upto > 3
              THEN WriteSheet(w2, SummaryName, summary_df(old, a.scalar_row, has))
              ELSE w2
        w4 == IF upto > 4
              THEN WriteSheet(w3, Take(a.monthly_sheet_name, SheetNameMax),
                              a.monthly_content)
              ELSE w3
    IN  w4

(***************************************************************************)
(* Calls of write_results_to_excel on one workbook, as run_single_pv makes  *)
(* them (lines 302-331 and 597-609), with the file system deciding which    *)
(* loads and writes go through.                                             *)
(***************************************************************************)
MaxCalls == 2

PvPerc1 == <<"P", "E", "R", "C", " ", "1">>
PvPerc2 == <<"P", "E", "R", "C", " ", "2">>
PvLong == <<"H", "J", "T", " ", "m", "o", "d", "u", "l", "e", " ", "4", "0", "0", "W", "p">>
BatLfp1 == <<"L", "F", "P", "_", "1">>
BatLfp2 == <<"L", "F", "P", "_", "2">>
RunIdChars == <<"S", "_", "A", "0">>

\* the combinations written to the workbook of one run id
ExcelCombos ==
    {[pv |-> PvPerc1, bat |-> BatLfp1, A_tot |-> Num(20000)],
     [pv |-> PvPerc2, bat |-> BatLfp1, A_tot |-> Num(20000)],
     [pv |-> PvLong,  bat |-> BatLfp1, A_tot |-> Num(100 * A_tot_unset)],
     [pv |-> PvLong,  bat |-> BatLfp2, A_tot |-> Num(100 * A_tot_unset)]}

\* the arguments run_single_pv passes for combination c (lines 597-609)
WriteArgs(c) ==
    LET g == generated_sheet(c.A_tot, c.pv, c.bat, RunIdChars)
    IN  [initial |-> [kind |-> "initial", of |-> c],
         sheet_name |-> hourly_sheet_name(g),
         run_content |-> [kind |-> "run", of |-> c],
         scalar_row |-> c,
         monthly_sheet_name |-> monthly_sheet_name(g),
         monthly_content |-> [kind |-> "monthly", of |-> c]]

InitExcel ==
    /\ pc = "excel"
    /\ workbooks = NoFile
    /\ override_params = EmptyDict
    /\ sweep_row = EmptyDict
    /\ cli_ins = Num(100)
    /\ data_has_hour0 = TRUE
    /\ computed_limit = 5
    /\ row_idx = 0
    /\ full_params = EmptyDict
    /\ launch_A_tot = 0
    /\ sizing_limits = 0
    /\ todo = <<>>
    /\ cur = <<>>
    /\ ampl = NoSession
    /\ hourly_df = EmptyDict
    /\ result = "none"
    /\ fail_at = "none"
    /\ log = <<>>
    /\ attempted = {}
    /\ Idle

excelvars == <<processes, summary_csv, override_params, cli_ins, data_has_hour0, computed_limit, sweep_row,
               full_params, launch_A_tot, sizing_limits, todo, cur, ampl, hourly_df,
               result, log, attempted>>

\* one call of write_results_to_excel; row_idx counts the calls made
CallWriteResults ==
    /\ pc = "excel"
    /\ row_idx < MaxCalls
    /\ \E c \in ExcelCombos, fails \in 0..tries_default,
          raise_at \in {"none"} \cup {WriteSteps[i] : i \in 1..Len(WriteSteps)} :
        LET loaded == _safe_load_workbook(fails, tries_default, delay_default)
        IN  /\ workbooks' = write_results_to_excel(workbooks, WriteArgs(c), loaded,
                                                   raise_at)
            /\ fn_in' = [combo |-> c, before |-> workbooks]
            /\ fn_out' = [loaded |-> loaded, fails |-> fails]
            /\ fail_at' = raise_at
    /\ row_idx' = row_idx + 1
    /\ UNCHANGED <<pc, excelvars>>

NextExcel == CallWriteResults

SpecExcel == InitExcel /\ [][NextExcel]_vars

(***************************************************************************)
(* Properties of the workbook                                               *)
(***************************************************************************)
\* the rows of the Summary sheet of wb, none when there is no such sheet
SummaryOf(wb) == Get(wb.sheets, SummaryName, <<>>)
RowsOf(wb) == {SummaryOf(wb)[i] : i \in 1..Len(SummaryOf(wb))}

\* a call of write_results_to_excel has been made; the last one returned
Called == pc = "excel" /\ row_idx > 0
Returned == Called /\ fail_at = "none"

\* the sheets the last call writes for its combination
OwnSheets ==
    {run_sheet_of(WriteArgs(fn_in.combo).sheet_name),
     Take(WriteArgs(fn_in.combo).monthly_sheet_name, SheetNameMax)}

\* C11: a call that returns, for a combination the Summary sheet has no row
\* of yet, leaves the Summary sheet with the rows it had before, unchanged and
\* in their order, followed by one new row.
C11_SummaryGrowsByOne ==
    (Returned /\ fn_in.combo \notin RowsOf(fn_in.before)) =>
        SummaryOf(workbooks) = Append(SummaryOf(fn_in.before), fn_in.combo)

\* the workbook before the last call is what a run of the same combination
\* left: its sheet and its Summary row are there
Rerun ==
    /\ Returned
    /\ fn_in.combo \in RowsOf(fn_in.before)
    /\ Get(fn_in.before.sheets, run_sheet_of(WriteArgs(fn_in.combo).sheet_name), None)
         = WriteArgs(fn_in.combo).run_content

\* C12: running the same combination again on the same workbook replaces the
\* combination's sheet and leaves the rows of the Summary sheet as they were
\* after the first run: the row count does not grow.
C12_RerunIsIdempotent ==
    Rerun =>
        /\ workbooks.sheets[run_sheet_of(WriteArgs(fn_in.combo).sheet_name)]
             = WriteArgs(fn_in.combo).run_content
        /\ SummaryOf(workbooks) = SummaryOf(fn_in.before)

\* the last call got as far as loading the workbook (line 68)
LoadTried == Called /\ fail_at \notin {"initial", "run_sheet"}

\* C13: _safe_load_workbook makes at most `tries` attempts, sleeps the same
\* delay after each failed one, returns at the first success, and when every
\* attempt failed the error makes the call of write_results_to_excel fail.
C13_LockedWorkbookIsFatal ==
    LoadTried =>
        LET l == fn_out.loaded
        IN  /\ l.attempts <= tries_default
            /\ \A i \in 1..Len(l.slept) : l.slept[i] = delay_default
            /\ l.ok => (l.attempts = fn_out.fails + 1 /\ Len(l.slept) = fn_out.fails)
            /\ ~l.ok => (Len(l.slept) = l.attempts /\ fail_at # "none")

\* C18: the Initial sheet is written only by a call that finds no workbook
\* file; a call that finds the file leaves the Initial sheet and every sheet
\* other than its own two sheets and Summary as they were.
C18_UnrelatedSheetsKept ==
    Called =>
        /\ ~fn_in.before.exists =>
              (workbooks.exists => workbooks.sheets[InitialName]
                                     = WriteArgs(fn_in.combo).initial)
        /\ fn_in.before.exists =>
              /\ workbooks.exists
              /\ \A n \in (DOMAIN fn_in.before.sheets) \ (OwnSheets \cup {SummaryName}) :
                    /\ n \in DOMAIN workbooks.sheets
                    /\ workbooks.sheets[n] = fn_in.before.sheets[n]
              /\ InitialName \in DOMAIN workbooks.sheets
              /\ workbooks.sheets[InitialName] = fn_in.before.sheets[InitialName]

\* C18, witness: a second call returned on a workbook whose Initial sheet is
\* that of another combination and which keeps the sheets of that combination
C18_Witness ==
    /\ Returned
    /\ fn_in.before.exists
    /\ workbooks.sheets[InitialName] # WriteArgs(fn_in.combo).initial
    /\ \E n \in DOMAIN workbooks.sheets :
          /\ n \notin OwnSheets \cup {SummaryName, InitialName}
          /\ workbooks.sheets[n].of # fn_in.combo

\* the last call wrote a sheet whose name another combination's sheet had
Collision ==
    /\ Returned
    /\ \E c \in RowsOf(fn_in.before) :
          /\ c # fn_in.combo
          /\ Get(fn_in.before.sheets,
                 run_sheet_of(WriteArgs(fn_in.combo).sheet_name), None)
               = WriteArgs(c).run_content

\* C19: sheet names have at most 31 characters; a call whose sheet name is
\* that of another combination's sheet replaces that sheet, leaves every other
\* sheet as it was, and the Summary sheet then has a row for both combinations.
C19_CollisionOverwritesSheet ==
    /\ Called => \A n \in DOMAIN workbooks.sheets : Len(n) <= SheetNameMax
    /\ Collision =>
          LET own == run_sheet_of(WriteArgs(fn_in.combo).sheet_name)
          IN  /\ workbooks.sheets[own] = WriteArgs(fn_in.combo).run_content
              /\ \A n \in (DOMAIN fn_in.before.sheets) \ (OwnSheets \cup {SummaryName}) :
                    workbooks.sheets[n] = fn_in.before.sheets[n]
              /\ RowsOf(fn_in.before) \cup {fn_in.combo} \subseteq RowsOf(workbooks)

(***************************************************************************)
(* Further properties of the sweep (specification Spec)                     *)
(***************************************************************************)
\* C14: the workbook a sweep row writes, named after the sheet id and the
\* row's launch A_tot, is written by no other row of the sweep: all rows of a
\* workbook's Summary sheet come from one sweep row.
C14_WorkbookPerRow ==
    \A n \in DOMAIN workbooks :
        \A i, j \in 1..Len(workbooks[n]) : workbooks[n][i][1] = workbooks[n][j][1]

\* C17: with hour 0 missing from the hourly data no combination of the row is
\* started, and the error stops the row alone: main does not stop while sweep
\* rows remain.
C17_MissingHourAbortsOnlyRun ==
    /\ ~data_has_hour0 => (attempted = {} /\ ampl.params = EmptyDict)
    /\ pc = "aborted" => row_idx = NumRows

(***************************************************************************)
(* parallel_sweep.main: every sweep file is launched as a job of its own,   *)
(* then the jobs are waited for in launch order.  A file stem is the        *)
(* sequence of its underscore-separated tokens.                             *)
(***************************************************************************)
MaxJobs == 3

\* the stems of the files in Launch_files matching "test*.csv", in the order
\* of line 46
AllStems ==
    <<<<"test">>, <<"test", "a">>, <<"test", "a", "b", "1">>,
      <<"test", "a", "b", "2">>, <<"test", "c">>>>

\* the members of the set S of indices in increasing order
RECURSIVE Sorted(_)
Sorted(S) ==
    IF S = {} THEN <<>>
    ELSE LET m == CHOOSE x \in S : \A y \in S : x <= y
         IN  <<m>> \o Sorted(S \ {m})

NameTokens == 3

\* lines 64-66: "_".join(parts[:3]) if len(parts) >= 2 else stem
sweep_name_of(stem) == IF Len(stem) >= 2 THEN Take(stem, NameTokens) ELSE stem

ts_label == "11_04"

\* lines 68-87: the job launched for a sweep file
JobOf(stem) ==
    [sweep_file |-> stem,
     sweep_name |-> sweep_name_of(stem),
     out_folder |-> [run |-> sweep_name_of(stem), ts |-> ts_label],
     sheet_id |-> [name |-> sweep_name_of(stem), ts |-> ts_label],
     running |-> TRUE,
     return_code |-> 0,
     order |-> 0]

\* every job reported as a success
StatusOf_success(return_code) == "SUCCESS"

\* line 103: status = SUCCESS if return_code == 0 else FAIL
StatusOf(return_code) == IF return_code = 0 THEN "SUCCESS" ELSE "FAIL"

Finishes(lg) == SelectSeq(lg, LAMBDA e : e.kind = "FINISH")

InitParallel ==
    /\ pc = "p_glob"
    /\ workbooks = EmptyDict
    /\ override_params = EmptyDict
    /\ sweep_row = EmptyDict
    /\ cli_ins = Num(100)
    /\ data_has_hour0 = TRUE
    /\ computed_limit = 5
    /\ row_idx = 0
    /\ full_params = EmptyDict
    /\ launch_A_tot = 0
    /\ sizing_limits = 0
    /\ todo = <<>>
    /\ cur = <<>>
    /\ ampl = NoSession
    /\ hourly_df = EmptyDict
    /\ result = "none"
    /\ fail_at = "none"
    /\ log = <<>>
    /\ attempted = {}
    /\ Idle

parallelvars == <<override_params, cli_ins, data_has_hour0, computed_limit, row_idx,
                  sweep_row, full_params, launch_A_tot, sizing_limits, cur, ampl,
                  hourly_df, result, fail_at, workbooks, attempted, fn_in, fn_out,
                  summary_csv>>

\* lines 41-61: the sweep files are collected and sorted; none: SystemExit(1)
GlobSweepFiles ==
    /\ pc = "p_glob"
    /\ \E S \in SUBSET (1..Len(AllStems)) :
        /\ Cardinality(S) <= MaxJobs
        /\ todo' = [i \in 1..Cardinality(S) |-> AllStems[Sorted(S)[i]]]
        /\ IF S = {}
           THEN pc' = "p_exit" /\ UNCHANGED log
           ELSE pc' = "p_launch" /\ log' = <<[kind |-> "HEADER"]>>
    /\ UNCHANGED <<processes, parallelvars>>

\* lines 63-93: the next sweep file is launched, not waited for
Launch ==
    /\ pc = "p_launch"
    /\ todo # <<>>
    /\ processes' = Append(processes, JobOf(Head(todo)))
    /\ log' = Append(log, [kind |-> "LAUNCH", job |-> Len(processes) + 1])
    /\ todo' = Tail(todo)
    /\ UNCHANGED <<pc, parallelvars>>

\* lines 95-99: every file is launched; the log is reopened for appending
EndLaunch ==
    /\ pc = "p_launch"
    /\ todo = <<>>
    /\ pc' = "p_wait"
    /\ UNCHANGED <<todo, log, processes, parallelvars>>

\* a launched job exits with some return code, at a time of its own
JobExits ==
    /\ \E i \in 1..Len(processes), code \in {0, 1} :
        /\ processes[i].running
        /\ processes' =
             [processes EXCEPT
                ![i].running = FALSE,
                ![i].return_code = code,
                ![i].order = 1 + Cardinality({j \in 1..Len(processes) :
                                                ~processes[j].running})]
    /\ UNCHANGED <<pc, todo, log, parallelvars>>

\* lines 100-104: proc.wait() of the next job in launch order returns and its
\* [FINISH] entry is written
WaitJob ==
    /\ pc = "p_wait"
    /\ LET k == Len(Finishes(log)) + 1
       IN  /\ k <= Len(processes)
           /\ ~processes[k].running
           /\ log' = Append(log, [kind |-> "FINISH", job |-> k,
                                  name |-> processes[k].sweep_name,
                                  status |-> StatusOf(processes[k].return_code)])
    /\ UNCHANGED <<pc, todo, processes, parallelvars>>

\* line 106
AllCompleted ==
    /\ pc = "p_wait"
    /\ Len(Finishes(log)) = Len(processes)
    /\ log' = Append(log, [kind |-> "ALL"])
    /\ pc' = "p_done"
    /\ UNCHANGED <<todo, processes, parallelvars>>

NextParallel ==
    \/ GlobSweepFiles
    \/ Launch
    \/ EndLaunch
    \/ JobExits
    \/ WaitJob
    \/ AllCompleted

SpecParallel == InitParallel /\ [][NextParallel]_vars

\* C15: two jobs of one launch that run at the same time have different
\* output folders, hence different workbook paths and summary CSV paths.
C15_JobsShareNoFile ==
    \A i, j \in 1..Len(processes) :
        (i # j /\ processes[i].running /\ processes[j].running) =>
            /\ processes[i].out_folder # processes[j].out_folder
            /\ processes[i].sheet_id # processes[j].sheet_id

\* C16: the [FINISH] entries are written in launch order, one per job, each
\* after its job has exited and with SUCCESS exactly for return code 0; the
\* closing line is written after all of them, and main ends with one entry for
\* every launched job.
C16_OneFinishPerJob ==
    LET fin == Finishes(log)
        closed == \E i \in 1..Len(log) : log[i].kind = "ALL"
    IN  /\ Len(fin) <= Len(processes)
        /\ \A k \in 1..Len(fin) :
              /\ fin[k].job = k
              /\ fin[k].name = processes[k].sweep_name
              /\ ~processes[k].running
              /\ fin[k].status = "SUCCESS" <=> processes[k].return_code = 0
        /\ closed => (todo = <<>> /\ Len(fin) = Len(processes)
                      /\ log[Len(log)].kind = "ALL")
        /\ pc = "p_done" => closed

\* C16, witness: main has ended after three jobs of which the first exited
\* last and failed and the second exited first and succeeded
C16_Witness ==
    /\ pc = "p_done"
    /\ Len(processes) = 3
    /\ processes[1].order = 3 /\ processes[1].return_code = 1
    /\ processes[2].order = 1 /\ processes[2].return_code = 0
    /\ Len(Finishes(log)) = 3

(***************************************************************************)
(* append_scalar_to_sweep_summary: the summary CSV of a run folder.  A CSV  *)
(* file is the sequence of its lines, a line the sequence of its cells.      *)
(***************************************************************************)
MaxAppends == 3

\* run folders by the characters of their base names; two end with an
\* underscore
RunFolders ==
    {<<"R", "u", "n", "_", "a">>, <<"R", "u", "n", "_", "b", "_">>,
     <<"R", "u", "n", "_", "c", "_">>}

\* "_summary.csv"
SummarySuffix == <<"_", "s", "u", "m", "m", "a", "r", "y", ".", "c", "s", "v">>

\* one-row scalar frames; the last has a column the others lack
ScalarFrames ==
    {[columns |-> <<"Run", "Cost">>, values |-> <<"r1", "10">>],
     [columns |-> <<"Run", "Cost">>, values |-> <<"r2", "20">>],
     [columns |-> <<"Run", "Cost", "Area">>, values |-> <<"r3", "30", "200">>]}

\* lines 461-463: <run folder>/<run folder basename>_summary.csv
summary_path(excel_filename) ==
    [dir |-> excel_filename.dir, name |-> excel_filename.dir \o SummarySuffix]

\* DataFrame.to_csv(path, mode, header, index=False)
to_csv(fs, path, frame, mode, header) ==
    LET old == IF mode = "a" THEN Get(fs, path, <<>>) ELSE <<>>
        head == IF header THEN <<frame.columns>> ELSE <<>>
    IN  Put(fs, path, old \o head \o <<frame.values>>)

\* the file written anew with its header by every call
append_scalar_rewrite(fs, excel_filename, scalar_df) ==
    to_csv(fs, summary_path(excel_filename), scalar_df, "w", TRUE)

\* lines 465-469
append_scalar_to_sweep_summary(fs, excel_filename, scalar_df) ==
    IF summary_path(excel_filename) \in DOMAIN fs
    THEN to_csv(fs, summary_path(excel_filename), scalar_df, "a", FALSE)
    ELSE to_csv(fs, summary_path(excel_filename), scalar_df, "w", TRUE)

InitCsv ==
    /\ pc = "csv"
    /\ workbooks = EmptyDict
    /\ override_params = EmptyDict
    /\ sweep_row = EmptyDict
    /\ cli_ins = Num(100)
    /\ data_has_hour0 = TRUE
    /\ computed_limit = 5
    /\ row_idx = 0
    /\ full_params = EmptyDict
    /\ launch_A_tot = 0
    /\ sizing_limits = 0
    /\ todo = <<>>
    /\ cur = <<>>
    /\ ampl = NoSession
    /\ hourly_df = EmptyDict
    /\ result = "none"
    /\ fail_at = "none"
    /\ log = <<>>
    /\ attempted = {}
    /\ Idle

csvvars == <<pc, override_params, cli_ins, data_has_hour0, computed_limit,
             sweep_row, full_params, launch_A_tot, sizing_limits, todo, cur, ampl,
             hourly_df, result, fail_at, workbooks, attempted, fn_out, processes>>

\* one call, for a workbook of some run folder and some one-row frame
CallAppendScalar ==
    /\ pc = "csv"
    /\ row_idx < MaxAppends
    /\ \E d \in RunFolders, f \in ScalarFrames :
        LET excel_filename == [dir |-> d, name |-> "S_A200.xlsx"]
        IN  /\ summary_csv' = append_scalar_to_sweep_summary(summary_csv, excel_filename, f)
            /\ fn_in' = [before |-> summary_csv, path |-> summary_path(excel_filename)]
            /\ log' = Append(log, [path |-> summary_path(excel_filename), frame |-> f])
    /\ row_idx' = row_idx + 1
    /\ UNCHANGED csvvars

NextCsv == CallAppendScalar

SpecCsv == InitCsv /\ [][NextCsv]_vars

\* the calls made so far for the summary CSV at path p, in call order
CallsFor(p) == SelectSeq(log, LAMBDA c : c.path = p)

\* C20: a summary CSV exists exactly when a call was made for its folder; it
\* holds the header of the first frame written to it followed by one data row
\* per call in call order, and the last call kept what the file held before as
\* a prefix and added nothing but its data row.
C20_HeaderOnceRowsInOrder ==
    /\ \A d \in RunFolders :
         LET p == summary_path([dir |-> d, name |-> "S_A200.xlsx"])
             calls == CallsFor(p)
         IN  IF calls = <<>>
             THEN p \notin DOMAIN summary_csv
             ELSE /\ p \in DOMAIN summary_csv
                  /\ Len(summary_csv[p]) = 1 + Len(calls)
                  /\ summary_csv[p][1] = calls[1].frame.columns
                  /\ \A k \in 1..Len(calls) : summary_csv[p][k + 1] = calls[k].frame.values
    /\ (log # <<>> /\ fn_in.path \in DOMAIN fn_in.before) =>
         summary_csv[fn_in.path] =
             fn_in.before[fn_in.path] \o <<log[Len(log)].frame.values>>

\* C20, witness: three calls for one folder, the third with a frame of other
\* columns than the first
C20_Witness ==
    /\ Len(log) = 3
    /\ log[1].path = log[2].path /\ log[2].path = log[3].path
    /\ log[1].frame.columns # log[3].frame.columns
    /\ Len(summary_csv[log[1].path]) = 4

(***************************************************************************)
(* merge_sweep_summaries: the summary CSVs under a base folder are read and  *)
(* written as one consolidated CSV.                                          *)
(***************************************************************************)
\* line 476: the file name pattern "*__summary.csv" after its star
MergeGlobSuffix == <<"_", "_", "s", "u", "m", "m", "a", "r", "y", ".", "c", "s", "v">>

EndsWith(s, suffix) ==
    /\ Len(s) >= Len(suffix)
    /\ SubSeq(s, Len(s) - Len(suffix) + 1, Len(s)) = suffix

\* the members of the set S in some fixed order
RECURSIVE InSomeOrder(_)
InSomeOrder(S) ==
    IF S = {} THEN <<>>
    ELSE LET x == CHOOSE y \in S : TRUE
         IN  <<x>> \o InSomeOrder(S \ {x})

\* line 476: glob(base_folder/**/*__summary.csv, recursive=True)
all_files(fs) == InSomeOrder({p \in DOMAIN fs : EndsWith(p.name, MergeGlobSuffix)})

\* pd.read_csv: the first line names the columns, a shorter line is filled
\* with empty cells, a longer line is a parser error
read_csv(lines) ==
    [ok |-> \A i \in 2..Len(lines) : Len(lines[i]) <= Len(lines[1]),
     columns |-> lines[1],
     rows |-> [i \in 1..(Len(lines) - 1) |->
                 [k \in 1..Len(lines[1]) |->
                    IF k <= Len(lines[i + 1]) THEN lines[i + 1][k] ELSE ""]]]

InSeq(s, x) == \E i \in 1..Len(s) : s[i] = x

\* the cells of a row of columns cols under the columns newcols
Reindex(row, cols, newcols) ==
    [k \in 1..Len(newcols) |->
       IF InSeq(cols, newcols[k])
       THEN row[CHOOSE j \in 1..Len(cols) : cols[j] = newcols[k]]
       ELSE ""]

\* line 479: pd.concat(dfs, ignore_index=True), the columns united in order
\* of first appearance
RECURSIVE concat(_)
concat(dfs) ==
    IF Len(dfs) = 1 THEN [columns |-> dfs[1].columns, rows |-> dfs[1].rows]
    ELSE LET front == concat(SubSeq(dfs, 1, Len(dfs) - 1))
             last == dfs[Len(dfs)]
             cols == front.columns \o
                     SelectSeq(last.columns, LAMBDA c : ~InSeq(front.columns, c))
         IN  [columns |-> cols,
              rows |-> [i \in 1..Len(front.rows) |->
                          Reindex(front.rows[i], front.columns, cols)] \o
                       [i \in 1..Len(last.rows) |->
                          Reindex(last.rows[i], last.columns, cols)]]

\* line 480: base_folder/output_filename
ConsolidatedPath == [dir |-> <<>>, name |-> <<"a", "l", "l", ".", "c", "s", "v">>]

\* lines 472-480
merge_sweep_summaries(fs, out_path) ==
    LET files == all_files(fs)
        dfs == [i \in 1..Len(files) |-> read_csv(fs[files[i]])]
    IN  IF \E i \in 1..Len(dfs) : ~dfs[i].ok
        THEN [raised |-> TRUE, fs |-> fs]
        ELSE IF dfs = <<>>
        THEN [raised |-> FALSE, fs |-> fs]
        ELSE [raised |-> FALSE,
              fs |-> Put(fs, out_path, <<concat(dfs).columns>> \o concat(dfs).rows)]

mergevars == <<override_params, cli_ins, data_has_hour0, computed_limit, row_idx,
               sweep_row, full_params, launch_A_tot, sizing_limits, todo, cur, ampl,
               hourly_df, fail_at, workbooks, attempted, fn_in, fn_out, processes,
               log>>

\* the per-folder summaries written so far are merged
CallMergeSweepSummaries ==
    /\ pc = "csv"
    /\ LET r == merge_sweep_summaries(summary_csv, ConsolidatedPath)
       IN  /\ summary_csv' = r.fs
           /\ result' = IF r.raised THEN "raised" ELSE "returned"
    /\ pc' = "merged"
    /\ UNCHANGED mergevars

NextMerge ==
    \/ CallAppendScalar
    \/ CallMergeSweepSummaries

SpecMerge == InitCsv /\ [][NextMerge]_vars

\* the data rows of the consolidated CSV, none when it was not written
ConsolidatedRows ==
    IF ConsolidatedPath \in DOMAIN summary_csv
    THEN Tail(summary_csv[ConsolidatedPath])
    ELSE <<>>

\* the consolidated row r holds the cells of the per-folder row v and empty
\* cells for the columns v lacks
HoldsRow(r, v) ==
    /\ Len(r) >= Len(v)
    /\ \A k \in 1..Len(r) : r[k] = IF k <= Len(v) THEN v[k] ELSE ""

\* how often the row v was written to the per-folder summaries
TimesWritten(v) == Cardinality({i \in 1..Len(log) : log[i].frame.values = v})

\* C21: after merge_sweep_summaries every data row of every per-folder summary
\* is in the consolidated CSV exactly as often as it was written to the
\* per-folder summaries.
C21_MergeHoldsEveryRow ==
    pc = "merged" =>
        \A f \in ScalarFrames :
            Cardinality({i \in 1..Len(ConsolidatedRows) :
                           HoldsRow(ConsolidatedRows[i], f.values)})
                = TimesWritten(f.values)

(***************************************************************************)
(* compute_pv_sizing_limits.  A float is the exact fraction num/den in      *)
(* lowest terms with den >= 0; den = 0 stands for the non-finite values:     *)
(* num > 0 for inf, num < 0 for -inf and num = 0 for NaN.                    *)
(***************************************************************************)
RECURSIVE GCD(_, _)
GCD(a, b) == IF b = 0 THEN a ELSE GCD(b, a % b)

\* the fraction n/d in lowest terms
Rat(n, d) ==
    LET g == GCD(IF n < 0 THEN -n ELSE n, IF d < 0 THEN -d ELSE d)
    IN  IF g = 0 THEN [num |-> 0, den |-> 0]
        ELSE IF d < 0 THEN [num |-> (-n) \div g, den |-> (-d) \div g]
        ELSE [num |-> n \div g, den |-> d \div g]

IsNaN(x) == x.den = 0 /\ x.num = 0

IsFinite(x) == x.den # 0

Sign(n) == IF n > 0 THEN 1 ELSE IF n < 0 THEN -1 ELSE 0

\* x < y; false when either is NaN
RLt(x, y) ==
    /\ ~IsNaN(x)
    /\ ~IsNaN(y)
    /\ x # y
    /\ IF x.den = 0 /\ y.den = 0 THEN Sign(x.num) < Sign(y.num)
       ELSE x.num * y.den < y.num * x.den

\* x == y; false when either is NaN.  Fractions are kept in lowest terms.
REq(x, y) == ~IsNaN(x) /\ ~IsNaN(y) /\ x = y

\* x / y of two finite float64 values: a zero divisor gives inf or NaN
RDiv(x, y) == Rat(x.num * y.den, x.den * y.num)

\* the builtin min(x, y): y when y < x, else x
py_min(x, y) == IF RLt(y, x) THEN y ELSE x

MaxRuns == 2

ConsumptionVals == {0, 5, 83, 115}

InsolationVals == {0, 3750, 5000}

HoursVals == {1, 2000}

\* a run of the hourly table: `hours` records of one consumption (kWh) and
\* one insolation
HourlyRuns == [consumption : ConsumptionVals, insolation : InsolationVals, hours : HoursVals]

\* the hourly tables, as sequences of runs
HourlyTables == UNION {[1..n -> HourlyRuns] : n \in 1..MaxRuns}

\* the PV table: STC_eff by PV type, in hundredths
SizingPvTable == [Mono |-> 20, Dead |-> 0]

SelectedModules == {"Mono", "Dead", "Missing"}

safety_margin_default == 10

\* Series.sum()
RECURSIVE SumSeq(_)
SumSeq(xs) == IF xs = <<>> THEN 0 ELSE Head(xs) + SumSeq(Tail(xs))

\* Series.max() of a series that is not empty
RECURSIVE MaxSeq(_)
MaxSeq(xs) ==
    IF Len(xs) = 1 THEN xs[1]
    ELSE LET m == MaxSeq(Tail(xs))
         IN  IF xs[1] >= m THEN xs[1] ELSE m

\* line 38 without the factor 0.90
by_service_full(capacity) == capacity

\* line 38: 0.90 * estimated_service_capacity_kw
by_service(capacity) == Rat(90 * capacity.num, 100 * capacity.den)

\* line 42
Limiting(final, by_production) ==
    IF REq(final, by_production) THEN "production limit (115%)"
    ELSE "service capacity (90%)"

\* lines 3-56
compute_pv_sizing_limits(df, pv_table, selected_module, safety_margin_percent) ==
    IF selected_module \notin DOMAIN pv_table
    THEN [raised |-> TRUE]
    ELSE
    LET module_efficiency == pv_table[selected_module]
        total_annual_kwh == SumSeq([i \in 1..Len(df) |-> df[i].consumption * df[i].hours])
        max_production_kwh == Rat(115 * total_annual_kwh, 100)
        specific_yield ==
            Rat(SumSeq([i \in 1..Len(df) |->
                           df[i].insolation * module_efficiency * df[i].hours]),
                100 * 1000)
        max_system_kw_by_production == RDiv(max_production_kwh, specific_yield)
        peak_kw == MaxSeq([i \in 1..Len(df) |-> df[i].consumption])
        estimated_service_capacity_kw == Rat(peak_kw * (100 + safety_margin_percent), 100)
        max_system_kw_by_service == by_service(estimated_service_capacity_kw)
        final_allowed_system_kw ==
            py_min(max_system_kw_by_production, max_system_kw_by_service)
    IN  [raised |-> FALSE,
         total_annual_kwh |-> total_annual_kwh,
         peak_kw |-> peak_kw,
         estimated_service_capacity_kw |-> estimated_service_capacity_kw,
         specific_yield |-> specific_yield,
         max_production_kwh |-> max_production_kwh,
         max_system_kw_by_production |-> max_system_kw_by_production,
         max_system_kw_by_service |-> max_system_kw_by_service,
         final_allowed_system_kw |-> final_allowed_system_kw,
         limiting_factor |-> Limiting(final_allowed_system_kw,
                                      max_system_kw_by_production)]

\* the variables no pure-function specification uses
NoProgram ==
    /\ workbooks = EmptyDict
    /\ override_params = EmptyDict
    /\ sweep_row = EmptyDict
    /\ cli_ins = Num(100)
    /\ data_has_hour0 = TRUE
    /\ computed_limit = 5
    /\ row_idx = 0
    /\ full_params = EmptyDict
    /\ launch_A_tot = 0
    /\ sizing_limits = 0
    /\ todo = <<>>
    /\ cur = <<>>
    /\ ampl = NoSession
    /\ hourly_df = EmptyDict
    /\ result = "none"
    /\ fail_at = "none"
    /\ log = <<>>
    /\ attempted = {}
    /\ processes = <<>>
    /\ summary_csv = NoCsv

purevars == <<workbooks, override_params, sweep_row, cli_ins, data_has_hour0,
              computed_limit, row_idx, full_params, launch_A_tot, sizing_limits,
              todo, cur, ampl, hourly_df, result, fail_at, log, attempted,
              processes, summary_csv>>

InitSizing ==
    /\ pc = "sizing_load"
    /\ fn_in = <<>>
    /\ fn_out = <<>>
    /\ NoProgram

\* lines 5-8: the hourly table and the PV table are read
LoadSizingInput ==
    /\ pc = "sizing_load"
    /\ \E df \in HourlyTables, m \in SelectedModules :
        fn_in' = [df |-> df, selected_module |-> m]
    /\ pc' = "sizing"
    /\ UNCHANGED <<fn_out, purevars>>

\* lines 10-56
ComputeSizing ==
    /\ pc = "sizing"
    /\ fn_out' = compute_pv_sizing_limits(fn_in.df, SizingPvTable, fn_in.selected_module,
                                          safety_margin_default)
    /\ pc' = "sized"
    /\ UNCHANGED <<fn_in, purevars>>

NextSizing ==
    \/ LoadSizingInput
    \/ ComputeSizing

SpecSizing == InitSizing /\ [][NextSizing]_vars

Sized == pc = "sized" /\ ~fn_out.raised

\* C22: the final allowed size is the smaller of the two bounds; the limiting
\* factor is the production limit when production is smaller or the bounds
\* are equal, and the service capacity only when the service bound is
\* strictly smaller.
C22_FinalIsMinOfBounds ==
    Sized =>
        LET bp == fn_out.max_system_kw_by_production
            bs == fn_out.max_system_kw_by_service
            final == fn_out.final_allowed_system_kw
        IN  /\ REq(final, bp) \/ REq(final, bs)
            /\ ~RLt(bp, final) /\ ~RLt(bs, final)
            /\ (RLt(bp, bs) \/ REq(bp, bs)) =>
                   fn_out.limiting_factor = "production limit (115%)"
            /\ fn_out.limiting_factor = "service capacity (90%)" => RLt(bs, bp)

\* C23: with a specific yield of zero the function raises, and no result it
\* returns holds a non-finite value.
C23_ZeroYieldRejected ==
    pc = "sized" =>
        /\ (~fn_out.raised => ~REq(fn_out.specific_yield, Rat(0, 1)))
        /\ (~fn_out.raised =>
               /\ IsFinite(fn_out.max_system_kw_by_production)
               /\ IsFinite(fn_out.final_allowed_system_kw))

\* the hourly table of 2000 hours of 5 kWh: 10,000 kWh a year, a peak of
\* 5 kW and, with the module of efficiency 0.20, a yield of 1,500 kWh/kW
ScenarioTable == <<[consumption |-> 5, insolation |-> 3750, hours |-> 2000]>>

\* C27: the production bound times the specific yield is 1.15 times the
\* annual consumption, the service bound is 0.90 times the peak consumption
\* times (1 + margin/100), and the table of 10,000 kWh, 1,500 kWh/kW and 5 kW
\* peak gives 5.5 kW service capacity, 4.95 kW by service, 4.95 kW final and
\* the service capacity as limiting factor.
C27_SizingFormulas ==
    Sized =>
        /\ ~REq(fn_out.specific_yield, Rat(0, 1)) =>
              fn_out.max_system_kw_by_production
                = Rat(115 * fn_out.total_annual_kwh * fn_out.specific_yield.den,
                      100 * fn_out.specific_yield.num)
        /\ fn_out.max_system_kw_by_service
             = Rat(90 * fn_out.peak_kw * (100 + safety_margin_default), 100 * 100)
        /\ (fn_in.df = ScenarioTable /\ fn_in.selected_module = "Mono") =>
              /\ fn_out.total_annual_kwh = 10000
              /\ fn_out.specific_yield = Rat(1500, 1)
              /\ fn_out.estimated_service_capacity_kw = Rat(55, 10)
              /\ fn_out.max_system_kw_by_service = Rat(495, 100)
              /\ fn_out.final_allowed_system_kw = Rat(495, 100)
              /\ fn_out.limiting_factor = "service capacity (90%)"

\* C27, witness: the sizing of the scenario table has returned
C27_Witness ==
    /\ Sized
    /\ fn_in.df = ScenarioTable
    /\ fn_in.selected_module = "Mono"
    /\ fn_out.peak_kw = 5

(***************************************************************************)
(* The cost helpers calculate_crf, annualized_pv_cost and                    *)
(* annualized_battery_cost, on Python floats: a division by zero raises      *)
(* ZeroDivisionError.  A result is the returned value or the raised error.   *)
(***************************************************************************)
Returns(v) == [raised |-> FALSE, value |-> v]

Raises == [raised |-> TRUE]

RAdd(x, y) == Rat(x.num * y.den + y.num * x.den, x.den * y.den)

RSub(x, y) == Rat(x.num * y.den - y.num * x.den, x.den * y.den)

RMul(x, y) == Rat(x.num * y.num, x.den * y.den)

One == Rat(1, 1)

\* x / y of numpy values: no error, a zero divisor gives inf or NaN
py_truediv_ieee(x, y) == Returns(RDiv(x, y))

\* x / y
py_truediv(x, y) == IF y.num = 0 THEN Raises ELSE Returns(RDiv(x, y))

\* x ** n for an integer n
RECURSIVE py_pow(_, _)
py_pow(x, n) ==
    IF n = 0 THEN Returns(One)
    ELSE IF n < 0
    THEN IF x.num = 0 THEN Raises ELSE py_pow(Rat(x.den, x.num), -n)
    ELSE Returns(RMul(x, py_pow(x, n - 1).value))

\* lines 392-393
calculate_crf(rate, lifetime) ==
    LET p == py_pow(RAdd(One, rate), lifetime)
    IN  IF p.raised THEN Raises
        ELSE py_truediv(RMul(rate, p.value), RSub(p.value, One))

\* range(start, stop, step) for a step that is not zero
RECURSIVE Range3(_, _, _)
Range3(start, stop, step) ==
    IF (step > 0 /\ start >= stop) \/ (step < 0 /\ start <= stop) THEN <<>>
    ELSE <<start>> \o Range3(start + step, stop, step)

\* lines 396-397: range with a step of zero raises ValueError
calculate_replacement_years(lifetime, project_life) ==
    IF lifetime = 0 THEN Raises ELSE Returns(Range3(lifetime, project_life, lifetime))

\* round(x, 2): to the nearest hundredth, a tie to the even one
Round2(x) ==
    LET n == x.num * 100
        f == n \div x.den
        r == n - f * x.den
    IN  IF 2 * r < x.den THEN Rat(f, 100)
        ELSE IF 2 * r > x.den THEN Rat(f + 1, 100)
        ELSE IF f % 2 = 0 THEN Rat(f, 100) ELSE Rat(f + 1, 100)

\* lines 413-420: base + sum(fraction * base / (1 + discount_rate) ** t
\* for t in years)
RECURSIVE npv(_, _, _, _)
npv(base, fraction, discount_rate, years) ==
    IF years = <<>> THEN Returns(base)
    ELSE LET p == py_pow(RAdd(One, discount_rate), Head(years))
             term == IF p.raised THEN Raises
                     ELSE py_truediv(RMul(fraction, base), p.value)
             rest == npv(base, fraction, discount_rate, Tail(years))
         IN  IF term.raised \/ rest.raised THEN Raises
             ELSE Returns(RAdd(rest.value, term.value))

\* lines 400-424
annualized_battery_cost(base_cost_e, base_cost_p, B_O_M, energy_life, power_life, project_life, discount_rate, replacement_fraction_e, replacement_fraction_p, itc_bat) ==
    LET years_e == calculate_replacement_years(energy_life, project_life)
        years_p == calculate_replacement_years(power_life, project_life)
        npv_e == IF years_e.raised THEN Raises
                 ELSE npv(base_cost_e, replacement_fraction_e, discount_rate, years_e.value)
        npv_p == IF years_p.raised THEN Raises
                 ELSE npv(base_cost_p, replacement_fraction_p, discount_rate, years_p.value)
        crf == calculate_crf(discount_rate, project_life)
    IN  IF npv_e.raised \/ npv_p.raised \/ crf.raised THEN Raises
        ELSE Returns(<<Round2(RAdd(RMul(RMul(npv_e.value, crf.value),
                                        RSub(One, itc_bat)), B_O_M)),
                       Round2(RMul(RMul(npv_p.value, crf.value), RSub(One, itc_bat)))>>)

\* lines 427-436
annualized_pv_cost(base_cost, o_m, project_life, discount_rate, itc_pv) ==
    LET crf == calculate_crf(discount_rate, project_life)
    IN  IF crf.raised THEN Raises
        ELSE Returns(Round2(RAdd(RMul(RMul(base_cost, RSub(One, itc_pv)), crf.value),
                                 o_m)))

MaxLife == 3

Rates == {Rat(0, 1), Rat(1, 2), Rat(-1, 1)}

Lifetimes == (-1)..MaxLife

ComponentLives == 0..2

InitCost ==
    /\ pc = "cost_load"
    /\ fn_in = <<>>
    /\ fn_out = <<>>
    /\ NoProgram

\* the arguments of the cost helpers
LoadCostInput ==
    /\ pc = "cost_load"
    /\ \E r \in Rates, l \in Lifetimes, e \in ComponentLives, w \in ComponentLives :
        fn_in' = [discount_rate |-> r, project_life |-> l, energy_life |-> e,
                  power_life |-> w]
    /\ pc' = "cost"
    /\ UNCHANGED <<fn_out, purevars>>

CallCalculateCrf ==
    /\ pc = "cost"
    /\ fn_out' = [fn |-> "calculate_crf",
                  res |-> calculate_crf(fn_in.discount_rate, fn_in.project_life)]
    /\ pc' = "cost_done"
    /\ UNCHANGED <<fn_in, purevars>>

CallAnnualizedPvCost ==
    /\ pc = "cost"
    /\ fn_out' = [fn |-> "annualized_pv_cost",
                  res |-> annualized_pv_cost(Rat(1000, 1), Rat(10, 1), fn_in.project_life,
                                             fn_in.discount_rate, Rat(3, 10))]
    /\ pc' = "cost_done"
    /\ UNCHANGED <<fn_in, purevars>>

CallAnnualizedBatteryCost ==
    /\ pc = "cost"
    /\ fn_out' = [fn |-> "annualized_battery_cost",
                  res |-> annualized_battery_cost(
                              Rat(400, 1), Rat(200, 1), Rat(5, 1), fn_in.energy_life,
                              fn_in.power_life, fn_in.project_life, fn_in.discount_rate,
                              Rat(1, 2), Rat(1, 2), Rat(3, 10))]
    /\ pc' = "cost_done"
    /\ UNCHANGED <<fn_in, purevars>>

NextCost ==
    \/ LoadCostInput
    \/ CallCalculateCrf
    \/ CallAnnualizedPvCost
    \/ CallAnnualizedBatteryCost

SpecCost == InitCost /\ [][NextCost]_vars

\* the value a cost helper returned holds no NaN and no inf
FiniteResult(res) ==
    IF fn_out.fn = "annualized_battery_cost"
    THEN IsFinite(res.value[1]) /\ IsFinite(res.value[2])
    ELSE IsFinite(res.value)

\* C24: with a rate of zero calculate_crf, annualized_pv_cost and
\* annualized_battery_cost raise whatever the lifetime, and no value any of
\* them returns is NaN or inf.
C24_ZeroRateRaises ==
    pc = "cost_done" =>
        /\ fn_in.discount_rate = Rat(0, 1) => fn_out.res.raised
        /\ ~fn_out.res.raised => FiniteResult(fn_out.res)

\* C24, witness: calculate_crf has raised for the rate 0 and a positive
\* lifetime
C24_Witness ==
    /\ pc = "cost_done"
    /\ fn_out.fn = "calculate_crf"
    /\ fn_in.discount_rate = Rat(0, 1)
    /\ fn_in.project_life = MaxLife
    /\ fn_out.res.raised

(***************************************************************************)
(* Further properties of the workbook.                                      *)
(***************************************************************************)
\* C29: every row the Summary sheet held before a call of
\* write_results_to_excel is in the Summary sheet after the call, also when
\* the load of the workbook failed on every attempt.
C29_SummaryRowsNeverRemoved ==
    Called => \A r \in RowsOf(fn_in.before) : r \in RowsOf(workbooks)

(***************************************************************************)
(* The Summary sheet with its columns: write_results_to_excel lines 73-87.   *)
(* A frame is its column names in order and its rows, each a function from   *)
(* the column names to cells; a sheet is a header line and lines of cells.   *)
(***************************************************************************)
MaxSummaryRows == 2

Blank == [t |-> "blank"]

SummaryColumns == <<"A", "B", "C">>

\* the one-row scalar frames: some of the columns, a number or None in each
ScalarDfs ==
    {[columns |-> SelectSeq(SummaryColumns, LAMBDA c : c \in cs), rows |-> <<r>>] :
        cs \in (SUBSET {"A", "B", "C"}) \ {{}}, r \in [{"A", "B", "C"} -> {Num(100), None}]}

\* the rows cut to the columns of their frame
Trimmed(df) ==
    [columns |-> df.columns,
     rows |-> [i \in 1..Len(df.rows) |->
                 [c \in {df.columns[k] : k \in 1..Len(df.columns)} |-> df.rows[i][c]]]]

\* DataFrame.to_excel(index=False): a missing value is written as an empty
\* cell
to_excel(df) ==
    [header |-> df.columns,
     lines |-> [i \in 1..Len(df.rows) |->
                  [k \in 1..Len(df.columns) |->
                     IF isna(df.rows[i][df.columns[k]]) THEN Blank
                     ELSE df.rows[i][df.columns[k]]]]]

\* pd.read_excel: an empty cell is read as NaN
read_excel(sheet) ==
    [columns |-> sheet.header,
     rows |-> [i \in 1..Len(sheet.lines) |->
                 [c \in {sheet.header[k] : k \in 1..Len(sheet.header)} |->
                    LET k == CHOOSE k \in 1..Len(sheet.header) : sheet.header[k] = c
                    IN  IF sheet.lines[i][k] = Blank THEN NaN ELSE sheet.lines[i][k]]]]

ColumnSet(df) == {df.columns[k] : k \in 1..Len(df.columns)}

\* lines 76-81: df[col] = np.nan for every column of `other` that df lacks
add_missing(df, other) ==
    LET new == SelectSeq(other.columns, LAMBDA c : c \notin ColumnSet(df))
    IN  [columns |-> df.columns \o new,
         rows |-> [i \in 1..Len(df.rows) |->
                     [c \in ColumnSet(df) \cup ColumnSet(other) |->
                        IF c \in ColumnSet(df) THEN df.rows[i][c] ELSE NaN]]]

\* the rows of b put under the columns of a by position, not by name
concat2_by_position(a, b) ==
    LET a2 == add_missing(a, b)
        b2 == add_missing(b, a)
        pos(c) == CHOOSE k \in 1..Len(a2.columns) : a2.columns[k] = c
    IN  [columns |-> a2.columns,
         rows |-> a2.rows \o
                  [i \in 1..Len(b2.rows) |->
                     [c \in ColumnSet(a2) |-> b2.rows[i][b2.columns[pos(c)]]]]]

\* line 82: pd.concat([a, b], ignore_index=True): the columns of a, then
\* those only b has; a cell of a column its frame lacks is NaN
concat2(a, b) ==
    LET a2 == add_missing(a, b)
        b2 == add_missing(b, a)
    IN  [columns |-> a2.columns, rows |-> a2.rows \o b2.rows]

\* lines 73-84
summary_frame(wb, scalar_df) ==
    IF SummaryName \in DOMAIN wb.sheets
    THEN LET existing == read_excel(wb.sheets[SummaryName])
         IN  concat2(add_missing(existing, scalar_df), add_missing(scalar_df, existing))
    ELSE scalar_df

InitUnion ==
    /\ pc = "union"
    /\ fn_in = <<>>
    /\ fn_out = <<>>
    /\ workbooks = NoFile
    /\ override_params = EmptyDict
    /\ sweep_row = EmptyDict
    /\ cli_ins = Num(100)
    /\ data_has_hour0 = TRUE
    /\ computed_limit = 5
    /\ row_idx = 0
    /\ full_params = EmptyDict
    /\ launch_A_tot = 0
    /\ sizing_limits = 0
    /\ todo = <<>>
    /\ cur = <<>>
    /\ ampl = NoSession
    /\ hourly_df = EmptyDict
    /\ result = "none"
    /\ fail_at = "none"
    /\ log = <<>>
    /\ attempted = {}
    /\ processes = <<>>
    /\ summary_csv = NoCsv

unionvars == <<pc, override_params, sweep_row, cli_ins, data_has_hour0, computed_limit,
               full_params, launch_A_tot, sizing_limits, todo, cur, ampl, hourly_df,
               result, fail_at, log, attempted, processes, summary_csv, fn_out>>

\* lines 66-87 with a workbook that loads: the Summary sheet is read, the new
\* row is added and the sheet is written again
UpdateSummary ==
    /\ pc = "union"
    /\ row_idx < MaxSummaryRows
    /\ \E df \in ScalarDfs :
        LET scalar_df == Trimmed(df)
        IN  /\ fn_in' = [had |-> SummaryName \in DOMAIN workbooks.sheets,
                         existing |-> IF SummaryName \in DOMAIN workbooks.sheets
                                      THEN read_excel(workbooks.sheets[SummaryName])
                                      ELSE [columns |-> <<>>, rows |-> <<>>],
                         scalar_df |-> scalar_df]
            /\ workbooks' = [exists |-> TRUE,
                             sheets |-> Put(workbooks.sheets, SummaryName,
                                            to_excel(summary_frame(workbooks, scalar_df)))]
    /\ row_idx' = row_idx + 1
    /\ UNCHANGED unionvars

NextUnion == UpdateSummary

SpecUnion == InitUnion /\ [][NextUnion]_vars

\* the cell as it is read back: None is read as NaN
ReadBack(x) == IF isna(x) THEN NaN ELSE x

MaxSwitchHour == 3

threshold == 10

PowerVals == {0, 10, 100000}

\* what the extraction of one hour gives: it raises, or P_ch and P_dis
Extractions ==
    {[ok |-> FALSE, P_ch |-> 0, P_dis |-> 0]} \cup
    [ok : {TRUE}, P_ch : PowerVals, P_dis : PowerVals]

\* data["hour_id"]: the hours from hour 0 on; line 237 makes h - 1 the hour
\* before h
HourIds == {[i \in 1..(n + 1) |-> i - 1] : n \in 1..MaxSwitchHour}

\* lines 336-349, 378-380: the values of the hours whose extraction did not
\* raise, in the order of data["hour_id"]
Extracted(hour_ids, ex) ==
    LET kept == SelectSeq([i \in 1..Len(hour_ids) |-> i], LAMBDA i : ex[i].ok)
    IN  [P_ch_vals |-> [k \in 1..Len(kept) |-> ex[kept[k]].P_ch],
         P_dis_vals |-> [k \in 1..Len(kept) |-> ex[kept[k]].P_dis]]

\* lines 437-441
switch_count(P_ch_vals, P_dis_vals) ==
    Cardinality({i \in 2..Len(P_ch_vals) :
                   P_ch_vals[i - 1] > threshold /\ P_dis_vals[i] > threshold})

InitSwitch ==
    /\ pc = "switch_load"
    /\ fn_in = <<>>
    /\ fn_out = <<>>
    /\ NoProgram

\* the hours of the data and the outcome of the extraction of each
LoadSwitchInput ==
    /\ pc = "switch_load"
    /\ \E hour_ids \in HourIds :
        \E ex \in [1..Len(hour_ids) -> Extractions] :
            fn_in' = [hour_ids |-> hour_ids, ex |-> ex]
    /\ pc' = "switch"
    /\ UNCHANGED <<fn_out, purevars>>

\* lines 335-349 and 437-441
CountSwitches ==
    /\ pc = "switch"
    /\ LET lists == Extracted(fn_in.hour_ids, fn_in.ex)
       IN  fn_out' = switch_count(lists.P_ch_vals, lists.P_dis_vals)
    /\ pc' = "switched"
    /\ UNCHANGED <<fn_in, purevars>>

NextSwitch ==
    \/ LoadSwitchInput
    \/ CountSwitches

SpecSwitch == InitSwitch /\ [][NextSwitch]_vars

\* the record of hour h, if the hourly results hold one
HasRecord(h) ==
    \E i \in 1..Len(fn_in.hour_ids) : fn_in.hour_ids[i] = h /\ fn_in.ex[i].ok

RecordOf(h) ==
    fn_in.ex[CHOOSE i \in 1..Len(fn_in.hour_ids) : fn_in.hour_ids[i] = h]

\* charging 1 and discharging 0 in hour 0, charging 0 and discharging 1 in
\* hour 1
SwitchScenario ==
    [hour_ids |-> <<0, 1>>,
     ex |-> <<[ok |-> TRUE, P_ch |-> 100000, P_dis |-> 0],
              [ok |-> TRUE, P_ch |-> 0, P_dis |-> 100000]>>]

\* C26: the switch count is the number of hours h for which the battery
\* charged above the threshold in hour h-1 and discharged above it in hour h;
\* it is 1 for charging 1, discharging 0 followed by charging 0,
\* discharging 1.
C26_SwitchCountOverHours ==
    pc = "switched" =>
        /\ fn_out = Cardinality({h \in 1..MaxSwitchHour :
                                   /\ HasRecord(h - 1)
                                   /\ HasRecord(h)
                                   /\ RecordOf(h - 1).P_ch > threshold
                                   /\ RecordOf(h).P_dis > threshold})
        /\ fn_in = SwitchScenario => fn_out = 1

(***************************************************************************)
(* compute_monthly_summary over the hourly records of a run.                 *)
(***************************************************************************)
MaxMonthlyHours == 3

DayVals == {1, 365}

ImportVals == {0, 3}

month_lengths == <<31, 28, 31, 30, 31, 30, 31, 31, 30, 31, 30, 31>>

\* run_sweep.main, lines 260-267: month 1 unless the day lies in a later month
month_of_day(day) ==
    LET cumulative(m) == SumSeq(SubSeq(month_lengths, 1, m - 1))
        hit == {m \in 1..12 : day > cumulative(m) /\ day <= cumulative(m) + month_lengths[m]}
    IN  IF hit = {} THEN 1 ELSE CHOOSE m \in hit : TRUE

\* a row of the driver table with the outcome of the extraction of its hour
DataRows ==
    [day : DayVals, onpeak : BOOLEAN, ok : {TRUE}, grid_import : ImportVals] \cup
    [day : DayVals, onpeak : BOOLEAN, ok : {FALSE}, grid_import : {0}]

\* the hourly records: one for every hour whose extraction did not raise
hourly_records(data) ==
    LET kept == SelectSeq([i \in 1..Len(data) |-> i], LAMBDA i : data[i].ok)
    IN  [k \in 1..Len(kept) |-> [Hour |-> kept[k] - 1, Grid_Import |-> data[kept[k]].grid_import]]

\* lines 486-488: the hourly records joined with month and onpeak of the
\* driver table on the hour
RECURSIVE left_merge(_, _)
left_merge(hourly, data) ==
    IF hourly = <<>> THEN <<>>
    ELSE LET h == Head(hourly)
             matches == SelectSeq([i \in 1..Len(data) |-> i], LAMBDA i : i - 1 = h.Hour)
         IN  [k \in 1..Len(matches) |->
                [Hour |-> h.Hour, Grid_Import |-> h.Grid_Import,
                 month |-> month_of_day(data[matches[k]].day),
                 onpeak |-> data[matches[k]].onpeak]]
             \o left_merge(Tail(hourly), data)

\* every record taken as off-peak
is_off_always(r) == TRUE

\* line 507: month_df["onpeak"] == False
is_off(r) == r.onpeak = FALSE

Imports(df) == [i \in 1..Len(df) |-> df[i].Grid_Import]

\* lines 500-570
RECURSIVE monthly_rows(_, _)
monthly_rows(merged_df, m) ==
    IF m > 12 THEN <<>>
    ELSE LET month_df == SelectSeq(merged_df, LAMBDA r : r.month = m)
             on_df == SelectSeq(month_df, LAMBDA r : r.onpeak = TRUE)
             off_df == SelectSeq(month_df, is_off)
             row == [Month |-> m,
                     OffPeak_Energy |-> SumSeq(Imports(off_df)),
                     OnPeak_Energy |-> SumSeq(Imports(on_df)),
                     OnPeak_Max |-> IF on_df = <<>> THEN 0 ELSE MaxSeq(Imports(on_df)),
                     Overall_Max |-> MaxSeq(Imports(month_df))]
         IN  IF month_df = <<>> THEN monthly_rows(merged_df, m + 1)
             ELSE <<row>> \o monthly_rows(merged_df, m + 1)

compute_monthly_summary(hourly, data) == monthly_rows(left_merge(hourly, data), 1)

InitMonthly ==
    /\ pc = "monthly_load"
    /\ fn_in = <<>>
    /\ fn_out = <<>>
    /\ NoProgram

\* the driver table of the hours from hour 0 on
LoadMonthlyInput ==
    /\ pc = "monthly_load"
    /\ \E n \in 1..MaxMonthlyHours : \E data \in [1..n -> DataRows] :
        fn_in' = [data |-> data, hourly_df |-> hourly_records(data)]
    /\ pc' = "monthly"
    /\ UNCHANGED <<fn_out, purevars>>

\* run_single_pv, line 420
ComputeMonthly ==
    /\ pc = "monthly"
    /\ fn_out' = compute_monthly_summary(fn_in.hourly_df, fn_in.data)
    /\ pc' = "monthly_done"
    /\ UNCHANGED <<fn_in, purevars>>

NextMonthly ==
    \/ LoadMonthlyInput
    \/ ComputeMonthly

SpecMonthly == InitMonthly /\ [][NextMonthly]_vars

\* the month of the hourly record rec
MonthOfRecord(rec) == month_of_day(fn_in.data[rec.Hour + 1].day)

\* the grid import of the hourly records of month m
ImportOfMonth(m) ==
    SumSeq(Imports(SelectSeq(fn_in.hourly_df, LAMBDA rec : MonthOfRecord(rec) = m)))

\* C28: the monthly summary has one row for every month that has hourly
\* records and no other row; on-peak and off-peak energy of a row add up to
\* the grid import of the records of its month, each record being in one of
\* the two sums, and the rows add up to the annual grid import.
C28_MonthlyPartition ==
    pc = "monthly_done" =>
        /\ \A k \in 1..Len(fn_in.hourly_df) :
              Cardinality({i \in 1..Len(fn_out) :
                             fn_out[i].Month = MonthOfRecord(fn_in.hourly_df[k])}) = 1
        /\ \A i \in 1..Len(fn_out) :
              /\ \E k \in 1..Len(fn_in.hourly_df) :
                    MonthOfRecord(fn_in.hourly_df[k]) = fn_out[i].Month
              /\ fn_out[i].OnPeak_Energy + fn_out[i].OffPeak_Energy
                   = ImportOfMonth(fn_out[i].Month)
              /\ fn_out[i].OnPeak_Energy
                   = SumSeq(Imports(SelectSeq(fn_in.hourly_df,
                        LAMBDA rec : /\ MonthOfRecord(rec) = fn_out[i].Month
                                     /\ fn_in.data[rec.Hour + 1].onpeak)))
        /\ SumSeq([i \in 1..Len(fn_out) |->
                     fn_out[i].OnPeak_Energy + fn_out[i].OffPeak_Energy])
             = SumSeq(Imports(fn_in.hourly_df))

\* C28, witness: a summary of two months, the first with on-peak import and
\* the second with off-peak import, for a table with an hour without a record
C28_Witness ==
    /\ pc = "monthly_done"
    /\ Len(fn_out) = 2
    /\ fn_out[1].OnPeak_Energy > 0
    /\ fn_out[2].OffPeak_Energy > 0
    /\ Len(fn_in.data) = 3
    /\ Len(fn_in.hourly_df) = 2

(***************************************************************************)
(* Further properties of the sweep: the area and the sizing limit handed   *)
(* to the optimizer.                                                        *)
(***************************************************************************)
\* the combination in hand has had its parameters written to the session
Submitted == pc \in {"pin", "solve", "extract", "write", "insert"}

\* the sweep row in hand resolved enforce_limit_flag to 1
Enforced == full_params["enforce_limit_flag"] = Num(100)

\* C30: for a combination whose parameters were written to the session, a row
\* whose enforce_limit_flag resolved to 0 has no A_tot left in the effective
\* parameters and is submitted with A_tot = 1e6 and sizing_limit = 1e6
\* whatever A_tot the row holds; a row whose flag resolved to 1 is submitted
\* with the A_tot the row holds and the computed final allowed size. In both
\* cases the run id logged and the workbook written carry the launch A_tot of
\* the row, the A_tot of the row rounded to an integer.
C30_UnenforcedRowRunsUnlimited ==
    Submitted =>
        /\ ~Enforced =>
              /\ "A_tot" \notin DOMAIN full_params
              /\ ampl.params.A_tot = Num(100 * A_tot_unset)
              /\ ampl.params.sizing_limit = NoLimitKw
        /\ Enforced =>
              /\ ~isna(sweep_row["A_tot"]) =>
                    ampl.params.A_tot = sweep_row["A_tot"]
              /\ ampl.params.sizing_limit = computed_limit
        /\ launch_A_tot = _safe_int_local(sweep_row["A_tot"], 0)
        /\ pc = "insert" => launch_A_tot \in DOMAIN workbooks

\* C30, witness: a row holding A_tot = 200 with the flag resolved to 0 has a
\* combination submitted with A_tot = 1e6 and written to the workbook of
\* launch A_tot 200
C30_Witness ==
    /\ pc = "insert"
    /\ ~Enforced
    /\ sweep_row["A_tot"] = Num(20000)
    /\ ampl.params.A_tot = Num(100 * A_tot_unset)
    /\ launch_A_tot = 200
    /\ 200 \in DOMAIN workbooks

====
